---- MODULE Spec2Model ----
(***************************************************************************)
(* TaskSync sidebar chat: the request/response broker of                   *)
(* TaskSyncWebviewProvider (webview/webviewProvider.ts, second listing in  *)
(* src/unnamed/part_004, lines 1105-2625).                                 *)
(*                                                                         *)
(* The provider runs on one event loop: every public method and every      *)
(* message handler runs to completion, so each is one action.              *)
(* waitForUserResponse has no await in its body, so it too is one step.    *)
(*                                                                         *)
(* Ids (tc_<time>_<random>, q_<time>_<random>) are fresh; they are drawn   *)
(* from two counters.  Texts are run-length encoded character sequences so *)
(* that trim() and the 10000 character ceiling are computed, not assumed.  *)
(*                                                                         *)
(* Question texts are sequences of characters; the regular expressions of  *)
(* _parseChoices and _isApprovalQuestion are pattern trees evaluated by a  *)
(* backtracking matcher, so that what they accept is computed.             *)
(*                                                                         *)
(* Nine specifications share the variables and the steps:                  *)
(*   Spec         the broker, with no documents on disk and both loads over*)
(*   StartupSpec  the two start-up loads racing with the first requests    *)
(*   HistorySpec  tool-history.json: load, deactivation, history handlers  *)
(*   QueueSpec    queue.json: load, debounce timer, writes                 *)
(*   EditSpec     the queue handlers of the webview with no request in play*)
(*   IdleSpec     what reaches the queue while no request is pending       *)
(*   WriteSpec    queue mutations and writes of queue.json that overlap    *)
(*   DurableSpec  the same with dispose(), timer and writes being fair     *)
(*   ParseSpec    _parseChoices and _isApprovalQuestion applied to a text  *)
(***************************************************************************)
EXTENDS Integers, Sequences, FiniteSets, TLC

VARIABLES
    view,                   \* _view is defined (a webview view is attached)
    webviewReady,           \* _webviewReady
    pendingRequests,        \* keys of _pendingRequests (id -> resolve)
    promptQueue,            \* _promptQueue
    queueEnabled,           \* _queueEnabled
    currentSessionCalls,    \* _currentSessionCalls, most recent first
    currentSessionCallsMap, \* keys of _currentSessionCallsMap (same objects)
    currentToolCallId,      \* _currentToolCallId (NoId is null)
    pendingToolCallMessage, \* _pendingToolCallMessage (NoMessage is null)
    queueSaveTimer,         \* _queueSaveTimer: "none" or "armed"
    disposed,               \* dispose() has run (the extension is deactivated)
    futures,                \* the promises handed out by waitForUserResponse
    posted,                 \* messages posted to the webview by the last step
    lastOp,                 \* the last step taken and its outcome
    nextCallId,             \* supply of fresh tool call ids
    nextItemId,             \* supply of fresh queue item ids
    returned,               \* what askUser returned to its callers in the last step
    webviewProvider,        \* the extension's webviewProvider variable is set
    persistedHistory,       \* _persistedHistory, most recent first
    historyDisk,            \* the document tool-history.json
    historyLoaded,          \* _loadPersistedHistoryFromDiskAsync has finished
    queueDisk,              \* the document queue.json
    queueLoaded,            \* _loadQueueFromDiskAsync has finished
    queueWrites,            \* writes of queue.json started and not yet finished
    parsedText,             \* the text handed to _parseChoices and _isApprovalQuestion
    choices,                \* what _parseChoices returned for it
    approval                \* what _isApprovalQuestion returned for it

vars == << view, webviewReady, pendingRequests, promptQueue, queueEnabled,
           currentSessionCalls, currentSessionCallsMap, currentToolCallId,
           pendingToolCallMessage, queueSaveTimer, disposed,
           futures, posted, lastOp, nextCallId, nextItemId, returned,
           webviewProvider, persistedHistory, historyDisk, historyLoaded,
           queueDisk, queueLoaded, queueWrites, parsedText, choices,
           approval >>

\* the persistent storage and what the extension keeps about it
storeVars == << webviewProvider, persistedHistory, historyDisk, historyLoaded,
                queueDisk, queueLoaded, queueWrites >>

\* the argument and the results of the two text classifiers
parseVars == << parsedText, choices, approval >>

\* ------------------------------------------------------------------ bounds

MaxCalls == 2

MaxItems == 2

\* ------------------------------------------------------------------ texts

MaxPromptLength == 10000

Chunk(c, n) == [c |-> c, n |-> n]

TextA == << Chunk("a", 1) >>

TextBPadded == << Chunk(" ", 1), Chunk("b", 1), Chunk(" ", 2) >>

TextB == << Chunk("b", 1) >>

TextBlank == << Chunk(" ", 2) >>

TextEmpty == << >>

TextTooLong == << Chunk("a", MaxPromptLength + 1) >>

RECURSIVE TextLen(_)
TextLen(t) == IF t = << >> THEN 0 ELSE Head(t).n + TextLen(Tail(t))

RECURSIVE TrimStart(_)
TrimStart(t) ==
    IF t # << >> /\ Head(t).c = " " THEN TrimStart(Tail(t)) ELSE t

RECURSIVE TrimEnd(_)
TrimEnd(t) ==
    IF t # << >> /\ t[Len(t)].c = " "
    THEN TrimEnd(SubSeq(t, 1, Len(t) - 1))
    ELSE t

\* String.prototype.trim
Trim(t) == TrimEnd(TrimStart(t))

\* values the webview may submit: one that trim() changes, one that is blank
SubmitInputs == { TextBPadded, TextBlank }

\* values the webview may submit while no request is pending: a text over the
\* ceiling of the queue as well
IdleSubmitInputs == SubmitInputs \cup { TextTooLong }

\* prompts the webview may add to the queue
AddInputs == { TextA, TextBlank, TextTooLong }

\* texts the webview may put in place of a queued prompt
EditInputs == { TextBPadded, TextBlank, TextTooLong }

\* questions the agent may ask
Questions == { "q1", "q2" }

\* The broker never looks into a question, so exchanging the two texts maps
\* behaviours to behaviours: the first question asked is taken to be "q1".
QuestionInputs(callId) == IF callId = 1 THEN { "q1" } ELSE Questions

\* ------------------------------------------------------------------ values

NoId == 0

NoMessage == [id |-> NoId, prompt |-> ""]

NoOp == [op |-> "init", out |-> "", id |-> NoId]

Op(name, out, id) == [op |-> name, out |-> out, id |-> id]

\* ToolCallEntry (timestamp and sessionId carry no behaviour and are left out)
Entry(id, prompt, response, isFromQueue, status) ==
    [id |-> id, prompt |-> prompt, response |-> response,
     isFromQueue |-> isFromQueue, status |-> status]

\* QueuedPrompt
QueuedPrompt(id, prompt) == [id |-> id, prompt |-> prompt]

\* messages to the webview
Msg(type, id, prompt) == [type |-> type, id |-> id, prompt |-> prompt]

UpdateQueueMsg == Msg("updateQueue", NoId, "")

UpdateCurrentSessionMsg == Msg("updateCurrentSession", NoId, "")

ToolCallCompletedMsg(id) == Msg("toolCallCompleted", id, "")

\* this._view?.webview.postMessage: dropped when no view is attached
Post(msgs) == IF view THEN msgs ELSE << >>

\* ------------------------------------------------------------------ helpers

\* _currentSessionCallsMap.get(id): the entry object, shared with the list
MapHas(id) == id \in currentSessionCallsMap

\* the map holds the object set last under the id: the one nearest the front
IndexOfCall(id) ==
    CHOOSE i \in 1..Len(currentSessionCalls) :
        /\ currentSessionCalls[i].id = id
        /\ \A j \in 1..(i - 1) : currentSessionCalls[j].id # id

MapGet(id) == currentSessionCalls[IndexOfCall(id)]

\* a promise: unresolved until resolve() is called; later calls are ignored
\* by the promise but counted here
NewFuture == [state |-> "unresolved", value |-> << >>, queue |-> FALSE, calls |-> 0]

ResolveFuture(f, value, queue) ==
    IF f.state = "unresolved"
    THEN [state |-> "resolved", value |-> value, queue |-> queue, calls |-> f.calls + 1]
    ELSE [f EXCEPT !.calls = f.calls + 1]

\* the result object of askUser; `raised` tells that an exception left askUser
\* instead.  Attachments are not modelled: the webview sends none.
AskUserResult(response, raised) ==
    [response |-> response, attachments |-> << >>, raised |-> raised]

\* askUser without its catch block: the error of waitForUserResponse escapes
AskUserNoCatch(threw, value) ==
    IF threw THEN AskUserResult(TextEmpty, TRUE) ELSE AskUserResult(value, FALSE)

\* askUser(params, provider, _token): the result of waitForUserResponse is
\* handed on, any error is turned into the empty result
AskUser(threw, value) ==
    IF threw THEN AskUserResult(TextEmpty, FALSE) ELSE AskUserResult(value, FALSE)

\* ------------------------------------------------------------------ storage

MaxHistoryEntries == 100

\* ids of the entries and queue items that earlier sessions left on disk start
\* here: ids are fresh, so they differ from every id of this session
StoredIdBase == 1000

\* persisted history is kept run-length encoded: a run stands for n entries
\* with the consecutive ids id .. id+n-1 and the same status
HistoryRun(id, n, status) == [id |-> id, n |-> n, status |-> status]

\* the session list as history entries (the same objects)
SessionAsHistory(calls) ==
    [i \in 1..Len(calls) |-> HistoryRun(calls[i].id, 1, calls[i].status)]

RECURSIVE HistoryLen(_)
\* Array.prototype.length
HistoryLen(h) == IF h = << >> THEN 0 ELSE Head(h).n + HistoryLen(Tail(h))

IsCompletedRun(r) == r.status = "completed"

\* the filter left out: every entry is kept
KeepAll(h) == h

\* filter(tc => tc.status === 'completed')
FilterCompleted(h) == SelectSeq(h, IsCompletedRun)

\* the slice left out: every entry is kept
SliceNothing(h, max) == h

RECURSIVE Slice(_, _)
\* slice(0, max)
Slice(h, max) ==
    IF h = << >> \/ max <= 0 THEN << >>
    ELSE IF Head(h).n <= max
         THEN << Head(h) >> \o Slice(Tail(h), max - Head(h).n)
         ELSE << [Head(h) EXCEPT !.n = max] >>

RECURSIVE FilterOutCall(_, _)
\* filter(tc => tc.id !== id)
FilterOutCall(h, id) ==
    IF h = << >> THEN << >>
    ELSE LET r == Head(h)
             before == IF id > r.id THEN << [r EXCEPT !.n = id - r.id] >> ELSE << >>
             after == IF id < r.id + r.n - 1
                      THEN << [r EXCEPT !.id = id + 1, !.n = r.id + r.n - 1 - id] >>
                      ELSE << >>
         IN (IF id >= r.id /\ id <= r.id + r.n - 1 THEN before \o after ELSE << r >>)
                \o FilterOutCall(Tail(h), id)

\* a document on disk.  Its kind is "missing", "unparsable" (not JSON), "json"
\* (an object of the documented shape), or an object of another shape:
\* "noEnabled" (queue.json whose enabled field is absent or not a boolean),
\* "noQueue" (queue.json whose queue field is not a list), "noHistory"
\* (tool-history.json whose history field is not a list).  The other fields
\* hold what the document has of the documented shape.
HistoryDoc(kind, history) == [kind |-> kind, history |-> history]

QueueDoc(kind, queue, enabled) == [kind |-> kind, queue |-> queue, enabled |-> enabled]

\* tool-history.json as the session may find it: absent, damaged, written by
\* an earlier session one entry short of the maximum, or left by something
\* else with a pending entry and more entries than the maximum
HistoryDiskInputs ==
    { HistoryDoc("missing", << >>),
      HistoryDoc("unparsable", << >>),
      HistoryDoc("json", << HistoryRun(StoredIdBase, MaxHistoryEntries - 1, "completed") >>),
      HistoryDoc("json", << HistoryRun(StoredIdBase, 1, "pending"),
                            HistoryRun(StoredIdBase + 1, MaxHistoryEntries + 1, "completed") >>) }

\* queue.json as the session may find it: absent, damaged, or written by an
\* earlier session
QueueDiskInputs ==
    { QueueDoc("missing", << >>, FALSE),
      QueueDoc("unparsable", << >>, FALSE),
      QueueDoc("json", << QueuedPrompt(StoredIdBase, TextA) >>, TRUE) }

\* documents that parse but are not of the documented shape
QueueShapeInputs ==
    { QueueDoc("noEnabled", << QueuedPrompt(StoredIdBase, TextA) >>, FALSE),
      QueueDoc("noQueue", << >>, FALSE) }

HistoryShapeInputs == { HistoryDoc("noHistory", << >>) }

\* ------------------------------------------------------------------ question texts

\* no text has been handed to the classifiers
NoText == << >>

\* a classifier that has not been called has returned nothing
NotCalled == [called |-> FALSE]

\* a classifier has been called and has returned `result`
Returned(result) == [called |-> TRUE, result |-> result]

\* A question text is a sequence of characters, each a one-character string;
\* the box-drawing characters are written by their code points.
NL == "\n"

TAB == "\t"

DigitChars == << "0", "1", "2", "3", "4", "5", "6", "7", "8", "9" >>

UpperChars == << "A", "B", "C", "D", "E", "F", "G", "H", "I", "J", "K", "L",
                 "M",
                 "N", "O", "P", "Q", "R", "S", "T", "U", "V", "W", "X", "Y",
                     "Z" >>

LowerChars == << "a", "b", "c", "d", "e", "f", "g", "h", "i", "j", "k", "l",
                 "m",
                 "n", "o", "p", "q", "r", "s", "t", "u", "v", "w", "x", "y",
                     "z" >>

Range(s) == { s[i] : i \in DOMAIN s }

\* \d
Digit == Range(DigitChars)

\* [A-Z]
Upper == Range(UpperChars)

\* [a-z]
Lower == Range(LowerChars)

\* \s
Space == { " ", TAB, NL, "\r" }

\* \w
WordChar == Lower \cup Upper \cup Digit \cup { "_" }

\* [from-to] within the letters or digits listed in `chars`
CharRange(chars, from, to) ==
    LET a == CHOOSE k \in DOMAIN chars : chars[k] = from
        b == CHOOSE k \in DOMAIN chars : chars[k] = to
    IN { chars[k] : k \in a..b }

\* String.prototype.toLowerCase, one character
LowerChar(c) ==
    IF c \in Upper
    THEN LowerChars[CHOOSE k \in DOMAIN UpperChars : UpperChars[k] = c]
    ELSE c

\* String.prototype.toUpperCase, one character
UpperChar(c) ==
    IF c \in Lower
    THEN UpperChars[CHOOSE k \in DOMAIN LowerChars : LowerChars[k] = c]
    ELSE c

ToLowerCase(s) == [i \in DOMAIN s |-> LowerChar(s[i])]

ToUpperCase(s) == [i \in DOMAIN s |-> UpperChar(s[i])]

\* String.prototype.substring(from, to), 0-based, `to` exclusive
Substring(s, from, to) == SubSeq(s, from + 1,
                                 IF to > Len(s) THEN Len(s) ELSE to)

\* the positions of s that hold no white space
NonSpace(s) == { i \in DOMAIN s : s[i] \notin Space }

Least(S) == CHOOSE m \in S : \A n \in S : m <= n

Greatest(S) == CHOOSE m \in S : \A n \in S : m >= n

StrTrimStart(s) ==
    IF NonSpace(s) = {} THEN << >>
    ELSE SubSeq(s, Least(NonSpace(s)), Len(s))

StrTrimEnd(s) ==
    IF NonSpace(s) = {} THEN << >>
    ELSE SubSeq(s, 1, Greatest(NonSpace(s)))

\* String.prototype.trim on a character sequence
StrTrim(s) == StrTrimEnd(StrTrimStart(s))

RECURSIVE Split(_, _)
\* String.prototype.split(sep) for a one-character separator
Split(s, sep) ==
    IF \A i \in DOMAIN s : s[i] # sep THEN << s >>
    ELSE LET k == CHOOSE i \in DOMAIN s :
                      s[i] = sep /\ \A j \in 1..(i - 1) : s[j] # sep
         IN << SubSeq(s, 1, k - 1) >> \o Split(SubSeq(s, k + 1, Len(s)), sep)

\* text.replace(/\n/g, ' ')
NewlinesToSpaces(s) == [i \in DOMAIN s |-> IF s[i] = NL THEN " " ELSE s[i]]

\* the characters of s at the positions of `keep`, in their order
Keep(s, keep) ==
    [k \in 1..Cardinality(keep) |->
        s[CHOOSE i \in keep : Cardinality({ j \in keep : j < i }) = k - 1]]

\* the number of asterisks right before position i
StarsBefore(s, i) ==
    i - 1 - Greatest({ 0 } \cup { j \in 1..(i - 1) : s[j] # "*" })

\* replace(/\*\*/g, ''): the pairs are taken from the left, so a pair starts
\* where an even number of asterisks comes before within the same run
RemoveBold(s) ==
    LET pairs == { i \in 1..(Len(s) - 1) :
                       /\ s[i] = "*"
                       /\ s[i + 1] = "*"
                       /\ StarsBefore(s, i) % 2 = 0 }
    IN Keep(s, { i \in DOMAIN s : i \notin pairs /\ (i - 1) \notin pairs })

\* replace(/[?!]+$/, '')
RemoveTrailingMarks(s) ==
    SubSeq(s, 1, Greatest({ 0 } \cup { i \in DOMAIN s : s[i] \notin { "?",
                          "!" } }))

RECURSIVE ParseInt(_)
\* parseInt(digits, 10) for a sequence of decimal digits
ParseInt(digits) ==
    IF digits = << >> THEN 0
    ELSE 10 * ParseInt(SubSeq(digits, 1, Len(digits) - 1))
             + (CHOOSE k \in DOMAIN DigitChars :
                    DigitChars[k] = digits[Len(digits)]) - 1

\* ------------------------------------------------------------------ patterns

\* A regular expression is a tree: a character class, a negated class, a
\* concatenation, an alternation, a repetition (greedy or lazy, max < 0 for
\* no limit), a capture group, a lookahead, or one of the assertions ^, $, \b.
Chr(cs) == [t |-> "set", cs |-> cs]

Lit(c) == Chr({ c })

NotChr(cs) == [t |-> "nset", cs |-> cs]

\* . matches any character but a line terminator
Dot == NotChr({ NL, "\r" })

Cat(rs) == [t |-> "seq", rs |-> rs]

Str(chars) == Cat([i \in DOMAIN chars |-> Lit(chars[i])])

Alt(rs) == [t |-> "alt", rs |-> rs]

Rep(r, min, max, greedy) ==
    [t |-> "rep", r |-> r, min |-> min, max |-> max, greedy |-> greedy]

Star(r) == Rep(r, 0, -1, TRUE)

Plus(r) == Rep(r, 1, -1, TRUE)

PlusLazy(r) == Rep(r, 1, -1, FALSE)

Opt(r) == Rep(r, 0, 1, TRUE)

Cap(k, r) == [t |-> "cap", k |-> k, r |-> r]

Look(r) == [t |-> "look", r |-> r]

Bol == [t |-> "bol"]

Eol == [t |-> "eol"]

WordBoundary == [t |-> "wb"]

\* the captures of a match: for each of the two groups the position of its
\* first character and the position after its last (1-based)
NoCaps == << << 0, 0 >>, << 0, 0 >> >>

\* a way to match: the position after the match and the captures
MatchEnd(e, c) == [e |-> e, c |-> c]

IsWordAt(s, i) == i >= 1 /\ i <= Len(s) /\ s[i] \in WordChar

RECURSIVE Match(_, _, _, _)
RECURSIVE MatchSeq(_, _, _, _)
RECURSIVE MatchSeqEach(_, _, _, _, _)
RECURSIVE MatchAlt(_, _, _, _)
RECURSIVE MatchRep(_, _, _, _, _)
RECURSIVE MatchRepEach(_, _, _, _, _, _, _)

\* the rest of a concatenation, from position i
MatchSeq(rs, s, i, c) ==
    IF rs = << >> THEN << MatchEnd(i, c) >>
    ELSE LET first == Match(Head(rs), s, i, c)
         IN MatchSeqEach(Tail(rs), s, first, 1, Len(first))

\* the rest of a concatenation after each of results[lo..hi], in their order
MatchSeqEach(rs, s, results, lo, hi) ==
    IF lo > hi THEN << >>
    ELSE IF lo = hi THEN MatchSeq(rs, s, results[lo].e, results[lo].c)
    ELSE MatchSeqEach(rs, s, results, lo, (lo + hi) \div 2)
             \o MatchSeqEach(rs, s, results, (lo + hi) \div 2 + 1, hi)

\* the alternatives in the order they are written
MatchAlt(rs, s, i, c) ==
    IF rs = << >> THEN << >>
    ELSE Match(Head(rs), s, i, c) \o MatchAlt(Tail(rs), s, i, c)

\* does the character class r accept the character ch
Accepts(r, ch) == IF r.t = "set" THEN ch \in r.cs ELSE ch \notin r.cs

\* a repetition of one character class from position i: it can stop after
\* any number of characters between min and the length of the run of accepted
\* characters (or max); a greedy one tries the longest first, a lazy one the
\* shortest
MatchRun(r, s, i, c) ==
    LET stop == Least({ Len(s) + 1 }
                          \cup { j \in i..Len(s) : ~Accepts(r.r, s[j]) })
        hi == IF r.max >= 0 /\ i + r.max < stop THEN i + r.max ELSE stop
        lo == i + r.min
    IN IF lo > hi THEN << >>
       ELSE [k \in 1..(hi - lo + 1) |->
                MatchEnd(IF r.greedy THEN hi - k + 1 ELSE lo + k - 1, c)]

\* a repetition after n rounds: a greedy one tries another round first, a
\* lazy one tries to stop first; a round that matches nothing is not taken
MatchRep(r, n, s, i, c) ==
    LET round == Match(r.r, s, i, c)
        more == IF r.max < 0 \/ n < r.max
                THEN MatchRepEach(r, n + 1, s, i, round, 1, Len(round))
                ELSE << >>
        stop == IF n >= r.min THEN << MatchEnd(i, c) >> ELSE << >>
    IN IF r.greedy THEN more \o stop ELSE stop \o more

MatchRepEach(r, n, s, i, results, lo, hi) ==
    IF lo > hi THEN << >>
    ELSE IF lo = hi
    THEN (IF results[lo].e > i
          THEN MatchRep(r, n, s, results[lo].e, results[lo].c)
          ELSE << >>)
    ELSE MatchRepEach(r, n, s, i, results, lo, (lo + hi) \div 2)
             \o MatchRepEach(r, n, s, i, results, (lo + hi) \div 2 + 1, hi)

\* the ways r matches s from position i, in the order a backtracking matcher
\* tries them
Match(r, s, i, c) ==
    CASE r.t = "set" ->
             IF i <= Len(s) /\ s[i] \in r.cs
             THEN << MatchEnd(i + 1, c) >> ELSE << >>
      [] r.t = "nset" ->
             IF i <= Len(s) /\ s[i] \notin r.cs
             THEN << MatchEnd(i + 1, c) >> ELSE << >>
      [] r.t = "seq" -> MatchSeq(r.rs, s, i, c)
      [] r.t = "alt" -> MatchAlt(r.rs, s, i, c)
      [] r.t = "rep" ->
             IF r.r.t \in { "set", "nset" } THEN MatchRun(r, s, i, c)
             ELSE MatchRep(r, 0, s, i, c)
      [] r.t = "bol" -> IF i = 1 THEN << MatchEnd(i, c) >> ELSE << >>
      [] r.t = "eol" -> IF i = Len(s) + 1 THEN << MatchEnd(i, c) >> ELSE << >>
      [] r.t = "wb" ->
             IF IsWordAt(s, i - 1) # IsWordAt(s, i)
             THEN << MatchEnd(i, c) >> ELSE << >>
      [] r.t = "look" ->
             IF Match(r.r, s, i, c) # << >> THEN << MatchEnd(i,
                                                             c) >> ELSE << >>
      [] r.t = "cap" ->
             LET inner == Match(r.r, s, i, c)
             IN [k \in DOMAIN inner |->
                    MatchEnd(inner[k].e, [c EXCEPT ![r.k] = << i,
                                                               inner[k].e >>])]

\* exec found nothing: null
NoMatch == [found |-> FALSE, start |-> 0, e |-> 0, c |-> NoCaps]

\* RegExp.prototype.exec with lastIndex at position `from`: the leftmost
\* match, and at that place the first way to match
Exec(r, s, from) ==
    LET starts == { i \in from..(Len(s) + 1) : Match(r, s, i,
                                                     NoCaps) # << >> }
        first == Head(Match(r, s, Least(starts), NoCaps))
    IN IF starts = {} THEN NoMatch
       ELSE [found |-> TRUE, start |-> Least(starts),
             e |-> first.e, c |-> first.c]

\* RegExp.prototype.test of a pattern without the g flag
Test(r, s) == \E i \in 1..(Len(s) + 1) : Match(r, s, i, NoCaps) # << >>

RECURSIVE ExecAll(_, _, _)
\* the matches a loop of exec calls finds with the g flag (String.match with g
\* finds the same): each search starts where the last match ended
ExecAll(r, s, from) ==
    LET m == Exec(r, s, from)
    IN IF ~m.found THEN << >>
       ELSE << m >> \o ExecAll(r, s, IF m.e > m.start THEN m.e ELSE m.e + 1)

\* the text of capture group k of a match in s
Group(s, m, k) == SubSeq(s, m.c[k][1], m.c[k][2] - 1)


\* ------------------------------------------------------------------ parseChoices

\* [.)]
ItemMark == Chr({ ".", ")" })

\* \*{0,2}
BoldMark == Rep(Lit("*"), 0, 2, TRUE)

\* numberedLinePattern.  _parseChoices uses it and src/ does not declare it
\* (the changelog of v2.0.8 notes "Added missing 'numberedLinePattern' regex
\* for choice parsing"); it is taken to be the numbered twin of
\* letteredLinePattern:  /^\s*\*{0,2}(\d+)[.)]\s*\*{0,2}\s*(.+)$/
NumberedLinePattern ==
    Cat(<< Bol, Star(Chr(Space)), BoldMark, Cap(1, Plus(Chr(Digit))),
           ItemMark,
           Star(Chr(Space)), BoldMark, Star(Chr(Space)), Cap(2, Plus(Dot)),
               Eol >>)

\* (?:[.):]|\s+-)
InlineNumberMark ==
    Alt(<< Chr({ ".", ")", ":" }), Cat(<< Plus(Chr(Space)), Lit("-") >>) >>)

\* inlineNumberedPattern:
\* /(\d+)(?:[.):]|\s+-)\s+([^0-9]+?)(?=\s+\d+(?:[.):]|\s+-)|$)/g
InlineNumberedPattern ==
    Cat(<< Cap(1, Plus(Chr(Digit))), InlineNumberMark, Plus(Chr(Space)),
           Cap(2, PlusLazy(NotChr(Digit))),
           Look(Alt(<< Cat(<< Plus(Chr(Space)), Plus(Chr(Digit)),
                              InlineNumberMark >>),
                       Eol >>)) >>)

\* letteredLinePattern:  /^\s*\*{0,2}([A-Za-z])[.)]\s*\*{0,2}\s*(.+)$/
LetteredLinePattern ==
    Cat(<< Bol, Star(Chr(Space)), BoldMark, Cap(1, Chr(Upper \cup Lower)),
           ItemMark, Star(Chr(Space)), BoldMark, Star(Chr(Space)),
           Cap(2, Plus(Dot)), Eol >>)

\* inlineLetteredPattern:  /\b([A-Z])[.)]\s+([^A-Z]+?)(?=\s+[A-Z][.)]|$)/g
InlineLetteredPattern ==
    Cat(<< WordBoundary, Cap(1, Chr(Upper)), ItemMark, Plus(Chr(Space)),
           Cap(2, PlusLazy(NotChr(Upper))),
           Look(Alt(<< Cat(<< Plus(Chr(Space)), Chr(Upper), ItemMark >>),
                       Eol >>)) >>)

\* [A-Za-z1-9] when case is ignored
OptionId == Chr(Lower \cup CharRange(DigitChars, "1", "9"))

\* optionPattern:
\* /option\s+([A-Za-z1-9])\s*:\s*([^O\n]+?)
\*  (?=\s*Option\s+[A-Za-z1-9]|\s*$|\n)/gi
\* The i flag is rendered by matching the pattern, written in lower case,
\* against the text in lower case: positions are the same in both.
OptionPattern ==
    Cat(<< Str(<< "o", "p", "t", "i", "o", "n" >>), Plus(Chr(Space)),
           Cap(1, OptionId), Star(Chr(Space)), Lit(":"), Star(Chr(Space)),
           Cap(2, PlusLazy(NotChr({ "o", NL }))),
           Look(Alt(<< Cat(<< Star(Chr(Space)),
                              Str(<< "o", "p", "t", "i", "o", "n" >>),
                              Plus(Chr(Space)), OptionId >>),
                       Cat(<< Star(Chr(Space)), Eol >>),
                       Lit(NL) >>)) >>)

\* ParsedChoice
Choice(label, value, shortLabel) ==
    [label |-> label, value |-> value, shortLabel |-> shortLabel]

\* an entry of numberedLines or letteredLines; `key` is the number or letter
\* as matched, `index` the 0-based line number
ListLine(index, key, lineText) == [index |-> index, key |-> key,
    text |-> lineText]

RECURSIVE MatchingLines(_, _, _)
\* the loop over the lines from the i-th on: a line counts when the pattern
\* matches it and the trimmed text has 3 characters or more; the text is
\* kept without the bold markers, trimmed
MatchingLines(pattern, lines, i) ==
    IF i > Len(lines) THEN << >>
    ELSE LET m == Exec(pattern, lines[i], 1)
         IN (IF m.found /\ Len(StrTrim(Group(lines[i], m, 2))) >= 3
             THEN << ListLine(i - 1, Group(lines[i], m, 1),
                              StrTrim(RemoveBold(Group(lines[i], m, 2)))) >>
             ELSE << >>)
                \o MatchingLines(pattern, lines, i + 1)

NumberedLines(lines) == MatchingLines(NumberedLinePattern, lines, 1)

LetteredLines(lines) == MatchingLines(LetteredLinePattern, lines, 1)

\* a new list starts at every numbered line: the list is cut after one item
NumberedBoundaryAlways(numberedLines, i) == TRUE

\* a new numbered list starts at the i-th numbered line: the number does not
\* grow, or the line is more than 5 lines below the one before
NumberedBoundary(numberedLines, i) ==
    \/ ParseInt(numberedLines[i].key) <= ParseInt(numberedLines[i - 1].key)
    \/ numberedLines[i].index - numberedLines[i - 1].index > 5

\* a new lettered list starts at the i-th lettered line: a gap of more than 3
LetteredBoundary(letteredLines, i) ==
    letteredLines[i].index - letteredLines[i - 1].index > 3

\* listBoundaries without its first element 0, as 1-based positions
NumberedListBoundaries(numberedLines) ==
    { i \in 2..Len(numberedLines) : NumberedBoundary(numberedLines, i) }

LetteredListBoundaries(letteredLines) ==
    { i \in 2..Len(letteredLines) : LetteredBoundary(letteredLines, i) }

\* lines.slice(0, firstListEnd)
FirstGroup(listLines, boundaries) ==
    IF boundaries = {} THEN listLines
    ELSE SubSeq(listLines, 1, Least(boundaries) - 1)

\* the label of a choice: trailing ? and ! removed, trimmed, and cut to 37
\* characters and "..." when longer than 40
DisplayText(itemText) ==
    LET cleanText == StrTrim(RemoveTrailingMarks(itemText))
    IN IF Len(cleanText) > 40
       THEN Substring(cleanText, 0, 37) \o << ".", ".", "." >>
       ELSE cleanText

\* the choices made of list lines or inline matches: value and shortLabel
\* are the key
KeyChoices(items) ==
    [k \in DOMAIN items |->
        Choice(DisplayText(items[k].text), items[k].key, items[k].key)]

\* the choices of Pattern 3: the value is "Option " and the id
OptionChoices(items) ==
    [k \in DOMAIN items |->
        Choice(DisplayText(items[k].text),
               << "O", "p", "t", "i", "o", "n", " " >> \o items[k].key,
               items[k].key)]

RECURSIVE InlineItems(_, _, _, _)
\* the loop over the matches of an inline pattern: a match counts when its
\* trimmed text has 3 characters or more.  `found` are the matches in
\* `searched`, the texts are taken from `s` (the same positions).
InlineItems(found, s, upper, k) ==
    IF k > Len(found) THEN << >>
    ELSE LET optionText == StrTrim(Group(s, found[k], 2))
             key == Group(s, found[k], 1)
         IN (IF Len(optionText) >= 3
             THEN << ListLine(0, IF upper THEN ToUpperCase(key) ELSE key,
                              optionText) >>
             ELSE << >>)
                \o InlineItems(found, s, upper, k + 1)

InlineNumberedMatches(singleLine) ==
    InlineItems(ExecAll(InlineNumberedPattern, singleLine, 1), singleLine,
                FALSE, 1)

InlineLetteredMatches(singleLine) ==
    InlineItems(ExecAll(InlineLetteredPattern, singleLine, 1), singleLine,
                FALSE, 1)

OptionMatches(s) ==
    InlineItems(ExecAll(OptionPattern, ToLowerCase(s), 1), s, TRUE, 1)

\* letteredLines with the letter in upper case
UpperKeys(items) ==
    [k \in DOMAIN items |-> [items[k] EXCEPT !.key = ToUpperCase(@)]]

\* _parseChoices(text)
ParseChoices(s) ==
    LET lines == Split(s, NL)
        numberedLines == NumberedLines(lines)
        numberedGroup == FirstGroup(numberedLines,
                                    NumberedListBoundaries(numberedLines))
        singleLine == NewlinesToSpaces(s)
        inlineNumberedMatches == InlineNumberedMatches(singleLine)
        letteredLines == UpperKeys(LetteredLines(lines))
        letteredGroup == FirstGroup(letteredLines,
                                    LetteredListBoundaries(letteredLines))
        inlineLetteredMatches == InlineLetteredMatches(singleLine)
        optionMatches == OptionMatches(s)
    IN IF Len(numberedLines) >= 2 /\ Len(numberedGroup) >= 2
       THEN KeyChoices(numberedGroup)
       ELSE IF Len(inlineNumberedMatches) >= 2
       THEN KeyChoices(inlineNumberedMatches)
       ELSE IF Len(letteredLines) >= 2 /\ Len(letteredGroup) >= 2
       THEN KeyChoices(letteredGroup)
       ELSE IF Len(inlineLetteredMatches) >= 2
       THEN KeyChoices(inlineLetteredMatches)
       ELSE IF Len(optionMatches) >= 2
       THEN OptionChoices(optionMatches)
       ELSE << >>


\* ------------------------------------------------------------------ isApprovalQuestion

\* (?:w1|w2|...) for literal words
Words(ws) == Alt([k \in DOMAIN ws |-> Str(ws[k])])

\* [1-9]
Digit1To9 == CharRange(DigitChars, "1", "9")

\* the box-drawing characters of the pattern for mockups, by code point
BoxDrawing ==
    { "u250C", "u251C", "u2514", "u2502", "u2510", "u2524", "u2518", "u2500",
      "u2554", "u2560", "u255A", "u2551", "u2557", "u2563", "u255D", "u2550" }

\* requiresSpecificInput, in the order of the source.  Every pattern carries
\* the i flag and is tested against the text in lower case; the patterns have
\* no upper case letter, so the flag changes nothing.
RequiresSpecificInput ==
    << \* /please (?:select|choose|pick) (?:an? )?option/i
       Cat(<< Str(<< "p", "l", "e", "a", "s", "e", " " >>),
              Words(<< << "s", "e", "l", "e", "c", "t" >>,
                       << "c", "h", "o", "o", "s", "e" >>,
                       << "p", "i", "c", "k" >> >>),
              Lit(" "), Opt(Cat(<< Lit("a"), Opt(Lit("n")), Lit(" ") >>)),
              Str(<< "o", "p", "t", "i", "o", "n" >>) >>),
       \* /select (?:an? )?option/i
       Cat(<< Str(<< "s", "e", "l", "e", "c", "t", " " >>),
              Opt(Cat(<< Lit("a"), Opt(Lit("n")), Lit(" ") >>)),
              Str(<< "o", "p", "t", "i", "o", "n" >>) >>),
       \* /let me know/i
       Str(<< "l", "e", "t", " ", "m", "e", " ", "k", "n", "o", "w" >>),
       \* /tell me (?:what|how|when|if|about)/i
       Cat(<< Str(<< "t", "e", "l", "l", " ", "m", "e", " " >>),
              Words(<< << "w", "h", "a", "t" >>, << "h", "o", "w" >>,
                       << "w", "h", "e", "n" >>, << "i", "f" >>,
                       << "a", "b", "o", "u", "t" >> >>) >>),
       \* /waiting (?:for|on) (?:your|the)/i
       Cat(<< Str(<< "w", "a", "i", "t", "i", "n", "g", " " >>),
              Words(<< << "f", "o", "r" >>, << "o", "n" >> >>), Lit(" "),
              Words(<< << "y", "o", "u", "r" >>, << "t", "h", "e" >> >>) >>),
       \* /ready to (?:hear|see|get|receive)/i
       Cat(<< Str(<< "r", "e", "a", "d", "y", " ", "t", "o", " " >>),
              Words(<< << "h", "e", "a", "r" >>, << "s", "e", "e" >>,
                       << "g", "e", "t" >>,
                       << "r", "e", "c", "e", "i", "v", "e" >> >>) >>),
       \* /what (?:is|are|should|would)/i
       Cat(<< Str(<< "w", "h", "a", "t", " " >>),
              Words(<< << "i", "s" >>, << "a", "r", "e" >>,
                       << "s", "h", "o", "u", "l", "d" >>,
                       << "w", "o", "u", "l", "d" >> >>) >>),
       \* /which (?:one|file|option|method|approach)/i
       Cat(<< Str(<< "w", "h", "i", "c", "h", " " >>),
              Words(<< << "o", "n", "e" >>, << "f", "i", "l", "e" >>,
                       << "o", "p", "t", "i", "o", "n" >>,
                       << "m", "e", "t", "h", "o", "d" >>,
                       << "a", "p", "p", "r", "o", "a", "c", "h" >> >>) >>),
       \* /where (?:should|would|is|are)/i
       Cat(<< Str(<< "w", "h", "e", "r", "e", " " >>),
              Words(<< << "s", "h", "o", "u", "l", "d" >>,
                       << "w", "o", "u", "l", "d" >>, << "i", "s" >>,
                       << "a", "r", "e" >> >>) >>),
       \* /how (?:should|would|do|can)/i
       Cat(<< Str(<< "h", "o", "w", " " >>),
              Words(<< << "s", "h", "o", "u", "l", "d" >>,
                       << "w", "o", "u", "l", "d" >>, << "d", "o" >>,
                       << "c", "a", "n" >> >>) >>),
       \* /when (?:should|would)/i
       Cat(<< Str(<< "w", "h", "e", "n", " " >>),
              Words(<< << "s", "h", "o", "u", "l", "d" >>,
                       << "w", "o", "u", "l", "d" >> >>) >>),
       \* /who (?:should|would)/i
       Cat(<< Str(<< "w", "h", "o", " " >>),
              Words(<< << "s", "h", "o", "u", "l", "d" >>,
                       << "w", "o", "u", "l", "d" >> >>) >>),
       \* /(?:enter|provide|specify|give|type|input|write)\s+(?:a|the|your)/i
       Cat(<< Words(<< << "e", "n", "t", "e", "r" >>,
                       << "p", "r", "o", "v", "i", "d", "e" >>,
                       << "s", "p", "e", "c", "i", "f", "y" >>,
                       << "g", "i", "v", "e" >>,
                       << "t", "y", "p", "e" >>,
                           << "i", "n", "p", "u", "t" >>,
                           << "w", "r", "i", "t", "e" >> >>),
              Plus(Chr(Space)), Words(<< << "a" >>, << "t", "h", "e" >>,
                                         << "y", "o", "u", "r" >> >>) >>),
       \* /what.*(?:name|value|path|url|content|text|message)/i
       Cat(<< Str(<< "w", "h", "a", "t" >>), Star(Dot),
              Words(<< << "n", "a", "m", "e" >>,
                       << "v", "a", "l", "u", "e" >>,
                       << "p", "a", "t", "h" >>, << "u", "r", "l" >>,
                       << "c", "o", "n", "t", "e", "n", "t" >>,
                       << "t", "e", "x", "t" >>,
                           << "m", "e", "s", "s", "a", "g", "e" >> >>) >>),
       \* /please (?:enter|provide|specify|give|type)/i
       Cat(<< Str(<< "p", "l", "e", "a", "s", "e", " " >>),
              Words(<< << "e", "n", "t", "e", "r" >>,
                       << "p", "r", "o", "v", "i", "d", "e" >>,
                       << "s", "p", "e", "c", "i", "f", "y" >>,
                       << "g", "i", "v", "e" >>,
                       << "t", "y", "p", "e" >> >>) >>),
       \* /describe|explain|elaborate|clarify/i
       Words(<< << "d", "e", "s", "c", "r", "i", "b", "e" >>,
                << "e", "x", "p", "l", "a", "i", "n" >>,
                << "e", "l", "a", "b", "o", "r", "a", "t", "e" >>,
                << "c", "l", "a", "r", "i", "f", "y" >> >>),
       \* /tell me (?:about|more|how)/i
       Cat(<< Str(<< "t", "e", "l", "l", " ", "m", "e", " " >>),
              Words(<< << "a", "b", "o", "u", "t" >>,
                       << "m", "o", "r", "e" >>, << "h", "o", "w" >> >>) >>),
       \* /what do you (?:think|want|need|prefer)/i
       Cat(<< Str(<< "w", "h", "a", "t", " ", "d", "o", " ", "y", "o", "u",
                     " " >>),
              Words(<< << "t", "h", "i", "n", "k" >>,
                       << "w", "a", "n", "t" >>, << "n", "e", "e", "d" >>,
                       << "p", "r", "e", "f", "e", "r" >> >>) >>),
       \* /any (?:suggestions|recommendations|preferences|thoughts)/i
       Cat(<< Str(<< "a", "n", "y", " " >>),
              Words(<< << "s", "u", "g", "g", "e", "s", "t", "i", "o", "n",
                          "s" >>, << "r", "e", "c", "o", "m", "m", "e", "n",
                                     "d", "a", "t", "i", "o", "n", "s" >>,
                                     << "p", "r", "e", "f", "e", "r", "e",
                                        "n", "c", "e", "s" >>,
                       << "t", "h", "o", "u", "g", "h", "t", "s" >> >>) >>),
       \* /choose (?:from|between|one of)/i
       Cat(<< Str(<< "c", "h", "o", "o", "s", "e", " " >>),
              Words(<< << "f", "r", "o", "m" >>,
                       << "b", "e", "t", "w", "e", "e", "n" >>,
                       << "o", "n", "e", " ", "o", "f" >> >>) >>),
       \* /select (?:from|one of|which)/i
       Cat(<< Str(<< "s", "e", "l", "e", "c", "t", " " >>),
              Words(<< << "f", "r", "o", "m" >>,
                       << "o", "n", "e", " ", "o", "f" >>,
                       << "w", "h", "i", "c", "h" >> >>) >>),
       \* /pick (?:one|from|between)/i
       Cat(<< Str(<< "p", "i", "c", "k", " " >>),
              Words(<< << "o", "n", "e" >>, << "f", "r", "o", "m" >>,
                       << "b", "e", "t", "w", "e", "e", "n" >> >>) >>),
       \* /\n\s*[1-9][.)]\s+\S/i
       Cat(<< Lit(NL), Star(Chr(Space)), Chr(Digit1To9), ItemMark,
              Plus(Chr(Space)), NotChr(Space) >>),
       \* /\n\s*[a-d][.)]\s+\S/i
       Cat(<< Lit(NL), Star(Chr(Space)), Chr(CharRange(LowerChars, "a", "d")),
              ItemMark, Plus(Chr(Space)), NotChr(Space) >>),
       \* /option\s+[a-d]\s*:/i
       Cat(<< Str(<< "o", "p", "t", "i", "o", "n" >>), Plus(Chr(Space)),
              Chr(CharRange(LowerChars, "a", "d")), Star(Chr(Space)),
              Lit(":") >>),
       \* /would you like (?:me to|to):\s*\n/i
       Cat(<< Str(<< "w", "o", "u", "l", "d", " ", "y", "o", "u", " ", "l",
                     "i", "k", "e", " " >>),
                     Words(<< << "m", "e", " ", "t", "o" >>,
                              << "t", "o" >> >>),
              Lit(":"), Star(Chr(Space)), Lit(NL) >>),
       \* /[...]/, the class of box-drawing characters
       Chr(BoxDrawing),
       \* /\[.+\]\s+\[.+\]/i
       Cat(<< Lit("["), Plus(Dot), Lit("]"), Plus(Chr(Space)), Lit("["),
              Plus(Dot), Lit("]") >>),
       \* /\d+[.)]\s+something else\??/i
       Cat(<< Plus(Chr(Digit)), ItemMark, Plus(Chr(Space)),
              Str(<< "s", "o", "m", "e", "t", "h", "i", "n", "g", " ", "e",
                     "l", "s", "e" >>), Opt(Lit("?")) >>) >>

\* /\n\s*\d+[.)]\s+/g
NumberedListItem ==
    Cat(<< Lit(NL), Star(Chr(Space)), Plus(Chr(Digit)), ItemMark,
           Plus(Chr(Space)) >>)

\* approvalPatterns, in the order of the source
ApprovalPatterns ==
    << \* /^(?:shall|should|can|could|may|would|will|do|does|did|is|are|was|were|have|has|had)\s+(?:i|we|you|it|this|that)\b/i
       Cat(<< Bol,
              Words(<< << "s", "h", "a", "l", "l" >>,
                       << "s", "h", "o", "u", "l", "d" >>,
                       << "c", "a", "n" >>, << "c", "o", "u", "l", "d" >>,
                       << "m", "a", "y" >>,
                       << "w", "o", "u", "l", "d" >>,
                           << "w", "i", "l", "l" >>, << "d", "o" >>,
                           << "d", "o", "e", "s" >>, << "d", "i", "d" >>,
                       << "i", "s" >>, << "a", "r", "e" >>,
                           << "w", "a", "s" >>, << "w", "e", "r", "e" >>,
                           << "h", "a", "v", "e" >>, << "h", "a", "s" >>,
                       << "h", "a", "d" >> >>),
              Plus(Chr(Space)),
              Words(<< << "i" >>, << "w", "e" >>, << "y", "o", "u" >>,
                       << "i", "t" >>, << "t", "h", "i", "s" >>,
                       << "t", "h", "a", "t" >> >>),
              WordBoundary >>),
       \* /(?:proceed|continue|go ahead|start|begin|execute|run|apply|commit|save|delete|remove|create|add|update|modify|change|overwrite|replace)/i
       Words(<< << "p", "r", "o", "c", "e", "e", "d" >>,
                << "c", "o", "n", "t", "i", "n", "u", "e" >>,
                << "g", "o", " ", "a", "h", "e", "a", "d" >>,
                << "s", "t", "a", "r", "t" >>,
                << "b", "e", "g", "i", "n" >>,
                    << "e", "x", "e", "c", "u", "t", "e" >>,
                    << "r", "u", "n" >>, << "a", "p", "p", "l", "y" >>,
                    << "c", "o", "m", "m", "i", "t" >>,
                << "s", "a", "v", "e" >>, << "d", "e", "l", "e", "t", "e" >>,
                    << "r", "e", "m", "o", "v", "e" >>,
                    << "c", "r", "e", "a", "t", "e" >>, << "a", "d", "d" >>,
                << "u", "p", "d", "a", "t", "e" >>,
                    << "m", "o", "d", "i", "f", "y" >>,
                    << "c", "h", "a", "n", "g", "e" >>,
                    << "o", "v", "e", "r", "w", "r", "i", "t", "e" >>,
                << "r", "e", "p", "l", "a", "c", "e" >> >>),
       \* /(?:ok|okay|alright|ready|confirm|approve|accept|allow|enable|disable|skip|ignore|dismiss|close|cancel|abort|stop|exit|quit)/i
       Words(<< << "o", "k" >>, << "o", "k", "a", "y" >>,
                << "a", "l", "r", "i", "g", "h", "t" >>,
                << "r", "e", "a", "d", "y" >>,
                << "c", "o", "n", "f", "i", "r", "m" >>,
                << "a", "p", "p", "r", "o", "v", "e" >>,
                    << "a", "c", "c", "e", "p", "t" >>,
                    << "a", "l", "l", "o", "w" >>,
                    << "e", "n", "a", "b", "l", "e" >>,
                    << "d", "i", "s", "a", "b", "l", "e" >>,
                << "s", "k", "i", "p" >>, << "i", "g", "n", "o", "r", "e" >>,
                    << "d", "i", "s", "m", "i", "s", "s" >>,
                    << "c", "l", "o", "s", "e" >>,
                    << "c", "a", "n", "c", "e", "l" >>,
                << "a", "b", "o", "r", "t" >>, << "s", "t", "o", "p" >>,
                    << "e", "x", "i", "t" >>, << "q", "u", "i", "t" >> >>),
       \* /\?$/
       Cat(<< Lit("?"), Eol >>),
       \* /(?:right|correct|yes|no)\s*\?$/i
       Cat(<< Words(<< << "r", "i", "g", "h", "t" >>,
                       << "c", "o", "r", "r", "e", "c", "t" >>,
                       << "y", "e", "s" >>, << "n", "o" >> >>),
              Star(Chr(Space)), Lit("?"), Eol >>),
       \* /(?:is that|does that|would that|should that)\s+(?:ok|okay|work|help|be\s+(?:ok|fine|good|acceptable))/i
       Cat(<< Words(<< << "i", "s", " ", "t", "h", "a", "t" >>,
                       << "d", "o", "e", "s", " ", "t", "h", "a", "t" >>,
                       << "w", "o", "u", "l", "d", " ", "t", "h", "a", "t" >>,
                       << "s", "h", "o", "u", "l", "d", " ", "t", "h", "a",
                          "t" >> >>),
              Plus(Chr(Space)),
              Alt(<< Str(<< "o", "k" >>), Str(<< "o", "k", "a", "y" >>),
                     Str(<< "w", "o", "r", "k" >>),
                     Str(<< "h", "e", "l", "p" >>),
                     Cat(<< Str(<< "b", "e" >>), Plus(Chr(Space)),
                            Words(<< << "o", "k" >>,
                                     << "f", "i", "n", "e" >>,
                                     << "g", "o", "o", "d" >>,
                                     << "a", "c", "c", "e", "p", "t", "a",
                                        "b", "l", "e" >> >>) >>) >>) >>),
       \* /(?:do you want|would you like|shall i|should i|can i|may i|could i)/i
       Words(<< << "d", "o", " ", "y", "o", "u", " ", "w", "a", "n", "t" >>,
                << "w", "o", "u", "l", "d", " ", "y", "o", "u", " ", "l",
                   "i", "k", "e" >>, << "s", "h", "a", "l", "l", " ", "i" >>,
                << "s", "h", "o", "u", "l", "d", " ", "i" >>,
                    << "c", "a", "n", " ", "i" >>,
                    << "m", "a", "y", " ", "i" >>,
                    << "c", "o", "u", "l", "d", " ", "i" >> >>),
       \* /(?:want me to|like me to|need me to)/i
       Words(<< << "w", "a", "n", "t", " ", "m", "e", " ", "t", "o" >>,
                << "l", "i", "k", "e", " ", "m", "e", " ", "t", "o" >>,
                << "n", "e", "e", "d", " ", "m", "e", " ", "t", "o" >> >>),
       \* /(?:approve|confirm|authorize|permit|allow)\s+(?:this|the|these)/i
       Cat(<< Words(<< << "a", "p", "p", "r", "o", "v", "e" >>,
                       << "c", "o", "n", "f", "i", "r", "m" >>,
                       << "a", "u", "t", "h", "o", "r", "i", "z", "e" >>,
                       << "p", "e", "r", "m", "i", "t" >>,
                       << "a", "l", "l", "o", "w" >> >>),
              Plus(Chr(Space)), Words(<< << "t", "h", "i", "s" >>,
                                         << "t", "h", "e" >>,
                                         << "t", "h", "e", "s",
                                            "e" >> >>) >>),
       \* /(?:yes or no|y\/n|yes\/no|\[y\/n\]|\(y\/n\))/i
       Words(<< << "y", "e", "s", " ", "o", "r", " ", "n", "o" >>,
                << "y", "/", "n" >>, << "y", "e", "s", "/", "n", "o" >>,
                << "[", "y", "/", "n", "]" >>,
                << "(", "y", "/", "n", ")" >> >>),
       \* /(?:are you sure|do you confirm|please confirm|confirm that)/i
       Words(<< << "a", "r", "e", " ", "y", "o", "u", " ", "s", "u", "r",
                   "e" >>, << "d", "o", " ", "y", "o", "u", " ", "c", "o",
                              "n", "f", "i", "r", "m" >>,
                              << "p", "l", "e", "a", "s", "e", " ", "c", "o",
                                 "n", "f", "i", "r", "m" >>,
                << "c", "o", "n", "f", "i", "r", "m", " ", "t", "h", "a",
                   "t" >> >>),
       \* /(?:this will|this would|this is going to)/i
       Words(<< << "t", "h", "i", "s", " ", "w", "i", "l", "l" >>,
                << "t", "h", "i", "s", " ", "w", "o", "u", "l", "d" >>,
                << "t", "h", "i", "s", " ", "i", "s", " ", "g", "o", "i",
                   "n", "g", " ", "t", "o" >> >>) >>

\* /^(?:what|which|where|when|why|how|who|whom|whose)\b/i
Interrogatives ==
    Cat(<< Bol,
           Words(<< << "w", "h", "a", "t" >>, << "w", "h", "i", "c", "h" >>,
                    << "w", "h", "e", "r", "e" >>, << "w", "h", "e", "n" >>,
                    << "w", "h", "y" >>,
                    << "h", "o", "w" >>, << "w", "h", "o" >>,
                        << "w", "h", "o", "m" >>,
                        << "w", "h", "o", "s", "e" >> >>),
           WordBoundary >>)

\* the loop `for (const pattern of patterns) if (pattern.test(text)) return`
AnyMatches(patterns, s) == \E k \in DOMAIN patterns : Test(patterns[k], s)

\* (text.match(/\n\s*\d+[.)]\s+/g) || []).length
NumberedListCount(s) == Len(ExecAll(NumberedListItem, s, 1))

\* String.prototype.endsWith for one character
EndsWith(s, c) == s # << >> /\ s[Len(s)] = c

\* the additional heuristic: a short text that ends with ? and does not
\* begin with an interrogative
ShortQuestion(lowerText) ==
    /\ Len(lowerText) < 100
    /\ EndsWith(StrTrim(lowerText), "?")
    /\ ~Test(Interrogatives, StrTrim(lowerText))

\* _isApprovalQuestion(text)
IsApprovalQuestion(s) ==
    LET lowerText == ToLowerCase(s)
    IN IF AnyMatches(RequiresSpecificInput, lowerText) THEN FALSE
       ELSE IF NumberedListCount(s) >= 2 THEN FALSE
       ELSE IF AnyMatches(ApprovalPatterns, lowerText) THEN TRUE
       ELSE ShortQuestion(lowerText)

\* ------------------------------------------------------------------ questions

\* the example of the numbered list followed by its question
ColorQuestion == << "1", ".", " ", "R", "e", "d", NL, "2", ".", " ", "B",
                    "l", "u", "e", NL, "3", ".", " ", "G", "r", "e", "e",
                    "n", NL, "W", "h", "i", "c", "h", " ", "c", "o", "l",
                    "o", "r", "?" >>

\* a real list of two items followed by an example list
ListThenExample == << "P", "i", "c", "k", ":", NL, "1", ".", " ", "R", "e",
                      "d", NL, "2", ".", " ", "B", "l", "u", "e", NL, "E",
                      "x", "a", "m", "p", "l", "e", ":", NL, "1", ".", " ",
                      "f", "o", "o", NL, "2", ".", " ", "b", "a", "r" >>

\* a heading numbered 1 followed by a list that starts again at 1
HeadingThenList == << "1", ".", " ", "O", "v", "e", "r", "v", "i", "e", "w",
                      NL, "1", ".", " ", "R", "e", "d", NL, "2", ".", " ",
                      "B", "l", "u", "e" >>

\* a list whose second item comes more than five lines after the first
ListWithGap == << "1", ".", " ", "R", "e", "d", NL, NL, NL, NL, NL, NL, "2",
                  ".", " ", "B", "l", "u", "e", NL, "3", ".", " ", "G", "r",
                  "e", "e", "n" >>

\* a list of two items that starts on the first line at number 10
ListFromTen == << "1", "0", ".", " ", "P", "r", "o", "c", "e", "e", "d", NL,
                  "1", "1", ".", " ", "C", "a", "n", "c", "e", "l" >>

\* the same list after a first line
ListFromTenAfterLine == << "R", "e", "a", "d", "y", "?", NL, "1", "0", ".",
                           " ", "P", "r", "o", "c", "e", "e", "d", NL, "1",
                           "1", ".", " ", "C", "a", "n", "c", "e", "l" >>

\* a permission question that also asks for a value
ProceedAndEnter == << "S", "h", "o", "u", "l", "d", " ", "I", " ", "p", "r",
                      "o", "c", "e", "e", "d", "?", " ", "P", "l", "e", "a",
                      "s", "e", " ", "e", "n", "t", "e", "r", " ", "t", "h",
                      "e", " ", "f", "i", "l", "e", " ", "n", "a", "m", "e" >>

\* a permission question without a list
ContinueQuestion == << "S", "h", "o", "u", "l", "d", " ", "I", " ", "c", "o",
                       "n", "t", "i", "n", "u", "e", "?" >>

\* The broker hands the question to the classifiers and to the webview and
\* does not look into it otherwise.  The first question is a list that
\* _parseChoices turns into choices and that _isApprovalQuestion takes for a
\* permission question as well; the second is a plain permission question.
QuestionText(question) ==
    IF question = "q1" THEN ListFromTen ELSE ContinueQuestion

\* isApproval without the test of the choices
IsApprovalUnguarded(choiceList, questionText) ==
    IsApprovalQuestion(questionText)

\* const isApproval = choices.length === 0 && this._isApprovalQuestion(question)
IsApproval(choiceList, questionText) ==
    Len(choiceList) = 0 /\ IsApprovalQuestion(questionText)

\* the two hints of each question, as waitForUserResponse and
\* _handleWebviewReady compute them from the prompt for the fields
\* isApprovalQuestion and choices of toolCallPending; an empty list of choices
\* stands for undefined
QuestionHints ==
    [question \in Questions |->
        LET choiceList == ParseChoices(QuestionText(question))
        IN [choices |-> choiceList,
            isApprovalQuestion |-> IsApproval(choiceList,
                                              QuestionText(question))]]

\* the toolCallPending message: its id and prompt; its two hints are a
\* function of the prompt, QuestionHints
ToolCallPendingMsg(id, prompt) == Msg("toolCallPending", id, prompt)

\* ------------------------------------------------------------------ Init

Init ==
    /\ view = FALSE
    /\ webviewReady = FALSE
    /\ pendingRequests = {}
    /\ promptQueue = << >>
    /\ queueEnabled = TRUE
    /\ currentSessionCalls = << >>
    /\ currentSessionCallsMap = {}
    /\ currentToolCallId = NoId
    /\ pendingToolCallMessage = NoMessage
    /\ queueSaveTimer = "none"
    /\ disposed = FALSE
    /\ futures = << >>
    /\ posted = << >>
    /\ lastOp = NoOp
    /\ nextCallId = 1
    /\ nextItemId = 1
    /\ returned = << >>
    /\ webviewProvider = TRUE
    /\ persistedHistory = << >>
    /\ historyDisk = HistoryDoc("missing", << >>)
    /\ historyLoaded = TRUE
    /\ queueDisk = QueueDoc("missing", << >>, FALSE)
    /\ queueLoaded = TRUE
    /\ queueWrites = << >>
    /\ parsedText = NoText
    /\ choices = NotCalled
    /\ approval = NotCalled

\* ------------------------------------------------------------------ steps

\* a shift() that forgets to remove the element
ShiftNothing(q) == q

\* Array.prototype.shift: the array without its first element
Shift(q) == Tail(q)

\* a push that puts the element in front
PushFront(q, e) == << e >> \o q

\* Array.prototype.push
Push(q, e) == Append(q, e)

\* Array.prototype.unshift
Unshift(list, e) == << e >> \o list

\* _saveQueueToDisk: clears a running timer and arms a new one
SaveQueueToDisk == "armed"

\* the resolver left in the map after it has been called
PendingRequestsKept(id) == pendingRequests

\* _pendingRequests.delete(id)
PendingRequestsDelete(id) == pendingRequests \ {id}

\* the value of _currentToolCallId after a request has been answered
ClearedToolCallId == NoId

\* what askUser hands to its callers in this step: the empty result when
\* waitForUserResponse threw, the answer when the step settled a promise
AskUserReturns ==
    IF lastOp'.op = "ask" /\ lastOp'.out = "threw"
    THEN << [id |-> NoId, result |-> AskUser(TRUE, TextEmpty)] >>
    ELSE LET settled == { id \in DOMAIN futures' :
                            /\ futures'[id].state = "resolved"
                            /\ (id \in DOMAIN futures => futures[id].state = "unresolved") }
         IN IF settled = {} THEN << >>
            ELSE LET id == CHOOSE id \in settled : TRUE
                 IN << [id |-> id, result |-> AskUser(FALSE, futures'[id].value)] >>

\* waitForUserResponse from the making of the tool call id on
AskWithView(question) ==
    /\ nextCallId <= MaxCalls
    /\ LET toolCallId == nextCallId IN
       /\ nextCallId' = nextCallId + 1
       /\ IF queueEnabled /\ Len(promptQueue) > 0
          THEN LET queuedPrompt == Head(promptQueue)
                   entry == Entry(toolCallId, question, queuedPrompt.prompt,
                                  TRUE, "completed")
               IN
               /\ promptQueue' = Shift(promptQueue)
               /\ queueSaveTimer' = SaveQueueToDisk
               /\ currentSessionCalls' = Unshift(currentSessionCalls, entry)
               /\ currentSessionCallsMap' = currentSessionCallsMap \cup {toolCallId}
               /\ currentToolCallId' = ClearedToolCallId
               /\ futures' = futures @@
                      (toolCallId :> ResolveFuture(NewFuture, queuedPrompt.prompt, TRUE))
               /\ posted' = Post(<< UpdateQueueMsg, UpdateCurrentSessionMsg >>)
               /\ lastOp' = Op("ask", "auto", toolCallId)
               /\ UNCHANGED << pendingRequests, pendingToolCallMessage >>
          ELSE LET pendingEntry == Entry(toolCallId, question, << >>,
                                         FALSE, "pending")
               IN
               /\ currentSessionCalls' = Unshift(currentSessionCalls, pendingEntry)
               /\ currentSessionCallsMap' = currentSessionCallsMap \cup {toolCallId}
               /\ IF webviewReady
                  THEN /\ posted' = Post(<< ToolCallPendingMsg(toolCallId, question),
                                            UpdateCurrentSessionMsg >>)
                       /\ UNCHANGED pendingToolCallMessage
                  ELSE /\ pendingToolCallMessage' =
                              [id |-> toolCallId, prompt |-> question]
                       /\ posted' = Post(<< UpdateCurrentSessionMsg >>)
               /\ currentToolCallId' = toolCallId
               /\ pendingRequests' = pendingRequests \cup {toolCallId}
               /\ futures' = futures @@ (toolCallId :> NewFuture)
               /\ lastOp' = Op("ask", "pending", toolCallId)
               /\ UNCHANGED << promptQueue, queueSaveTimer >>
    /\ UNCHANGED << view, webviewReady, queueEnabled, disposed, nextItemId >>

\* waitForUserResponse without its check that a view is attached
WaitForUserResponseUnchecked(question) ==
    /\ AskWithView(question)
    /\ returned' = AskUserReturns
    /\ UNCHANGED storeVars
    /\ UNCHANGED parseVars

\* waitForUserResponse(question)
WaitForUserResponse(question) ==
    /\ IF ~view
       THEN \* throw new Error('Webview not visible')
            /\ lastOp' = Op("ask", "threw", NoId)
            /\ posted' = << >>
            /\ UNCHANGED << view, webviewReady, pendingRequests, promptQueue,
                            queueEnabled, currentSessionCalls,
                            currentSessionCallsMap, currentToolCallId,
                            pendingToolCallMessage, queueSaveTimer, disposed,
                            futures, nextCallId, nextItemId >>
       ELSE AskWithView(question)
    /\ returned' = AskUserReturns
    /\ UNCHANGED storeVars
    /\ UNCHANGED parseVars

\* resolveWebviewView: a (new) webview view is attached; its script has not run.
\* The provider's registration is disposed together with the provider
\* (extension.ts, context.subscriptions), so no view is resolved afterwards.
ResolveWebviewView ==
    /\ ~disposed
    /\ view' = TRUE
    /\ webviewReady' = FALSE
    /\ posted' = << >>
    /\ lastOp' = Op("resolveWebviewView", "", NoId)
    /\ UNCHANGED << pendingRequests, promptQueue, queueEnabled,
                    currentSessionCalls, currentSessionCallsMap,
                    currentToolCallId, pendingToolCallMessage, queueSaveTimer,
                    disposed, futures, nextCallId, nextItemId >>
    /\ returned' = AskUserReturns
    /\ UNCHANGED storeVars
    /\ UNCHANGED parseVars

\* the webviewView.onDidDispose callback
OnDidDispose ==
    /\ view
    /\ webviewReady' = FALSE
    /\ view' = FALSE
    /\ posted' = << >>
    /\ lastOp' = Op("onDidDispose", "", NoId)
    /\ UNCHANGED << pendingRequests, promptQueue, queueEnabled,
                    currentSessionCalls, currentSessionCallsMap,
                    currentToolCallId, pendingToolCallMessage, queueSaveTimer,
                    disposed, futures, nextCallId, nextItemId >>
    /\ returned' = AskUserReturns
    /\ UNCHANGED storeVars
    /\ UNCHANGED parseVars

\* the question _handleWebviewReady re-sends for the current request when
\* nothing is buffered (BUG FIX #2 branch)
ResendCurrent ==
    IF /\ currentToolCallId # NoId
       /\ currentToolCallId \in pendingRequests
       /\ MapHas(currentToolCallId)
       /\ MapGet(currentToolCallId).status = "pending"
    THEN << ToolCallPendingMsg(currentToolCallId, MapGet(currentToolCallId).prompt) >>
    ELSE << >>

\* _handleWebviewReady with `if` where the code has `else if`: the buffered
\* question is replayed and the current request is re-sent as well
HandleWebviewReadyBoth ==
    /\ view
    /\ webviewReady' = TRUE
    /\ posted' = Post(<< UpdateQueueMsg, UpdateCurrentSessionMsg >>
                      \o (IF pendingToolCallMessage # NoMessage
                          THEN << ToolCallPendingMsg(pendingToolCallMessage.id,
                                                     pendingToolCallMessage.prompt) >>
                          ELSE << >>)
                      \o ResendCurrent)
    /\ pendingToolCallMessage' = NoMessage
    /\ lastOp' = Op("webviewReady", "replayed", pendingToolCallMessage.id)
    /\ UNCHANGED << view, pendingRequests, promptQueue, queueEnabled,
                    currentSessionCalls, currentSessionCallsMap,
                    currentToolCallId, queueSaveTimer, disposed, futures,
                    nextCallId, nextItemId >>
    /\ returned' = AskUserReturns
    /\ UNCHANGED storeVars
    /\ UNCHANGED parseVars

\* _handleWebviewReady
HandleWebviewReady ==
    /\ view
    /\ webviewReady' = TRUE
    /\ IF pendingToolCallMessage # NoMessage
       THEN /\ posted' = Post(<< UpdateQueueMsg, UpdateCurrentSessionMsg,
                                 ToolCallPendingMsg(pendingToolCallMessage.id,
                                                    pendingToolCallMessage.prompt) >>)
            /\ pendingToolCallMessage' = NoMessage
            /\ lastOp' = Op("webviewReady", "replayed", pendingToolCallMessage.id)
       ELSE /\ posted' = Post(<< UpdateQueueMsg, UpdateCurrentSessionMsg >>
                              \o ResendCurrent)
            /\ UNCHANGED pendingToolCallMessage
            /\ lastOp' = IF ResendCurrent # << >>
                         THEN Op("webviewReady", "resent", currentToolCallId)
                         ELSE Op("webviewReady", "", NoId)
    /\ UNCHANGED << view, pendingRequests, promptQueue, queueEnabled,
                    currentSessionCalls, currentSessionCallsMap,
                    currentToolCallId, queueSaveTimer, disposed, futures,
                    nextCallId, nextItemId >>
    /\ returned' = AskUserReturns
    /\ UNCHANGED storeVars
    /\ UNCHANGED parseVars

\* the answer always recorded as a new entry, whatever the map holds
CompleteCallAsNew(id, response, isFromQueue) ==
    Unshift(currentSessionCalls,
            Entry(id, "Tool call", response, isFromQueue, "completed"))

\* the session list after the request `id` has been answered with `response`:
\* the pending entry is completed in place, or a new completed entry is made
\* ("shouldn't happen normally")
CompleteCall(id, response, isFromQueue) ==
    IF MapHas(id) /\ MapGet(id).status = "pending"
    THEN [currentSessionCalls EXCEPT ![IndexOfCall(id)] =
              [@ EXCEPT !.response = response,
                        !.status = "completed",
                        !.isFromQueue = IF isFromQueue THEN TRUE ELSE @]]
    ELSE Unshift(currentSessionCalls,
                 Entry(id, "Tool call", response, isFromQueue, "completed"))

\* Queue item ids are made in two places: by the webview (addToQueue) and by
\* the provider (_handleSubmit).  Both are fresh; the provider's are taken
\* from the upper half of the id space so that the two never meet.
ProviderIdBase == 100

ProviderItemId(n) == ProviderIdBase + n

MadeByProvider(itemId) == itemId > ProviderIdBase /\ itemId <= 2 * ProviderIdBase

\* the test without its check of the current tool call id
SubmitAnyPending == Cardinality(pendingRequests) > 0

\* the first branch of _handleSubmit is taken
SubmitHasPending == Cardinality(pendingRequests) > 0 /\ currentToolCallId # NoId

\* the queue flag of the result a submit resolves with
SubmitQueueFlag == queueEnabled

\* the queue mode left as it was
SubmitKeepsMode == queueEnabled

\* the queue mode after _handleSubmit has stored a value ("auto-switch to
\* queue mode")
SubmitQueueMode == TRUE

\* the text _handleSubmit stores when no request is pending
SubmitQueuedText(value) == Trim(value)

\* _handleSubmit(value, attachments)
HandleSubmit(value) ==
    /\ view
    /\ IF SubmitHasPending
       THEN IF currentToolCallId \in pendingRequests
            THEN /\ currentSessionCalls' = CompleteCall(currentToolCallId, value, FALSE)
                 /\ currentSessionCallsMap' =
                        currentSessionCallsMap \cup {currentToolCallId}
                 /\ posted' = Post(<< ToolCallCompletedMsg(currentToolCallId),
                                      UpdateCurrentSessionMsg >>)
                 /\ futures' = [futures EXCEPT ![currentToolCallId] =
                                    ResolveFuture(@, value, SubmitQueueFlag)]
                 /\ pendingRequests' = PendingRequestsDelete(currentToolCallId)
                 /\ currentToolCallId' = ClearedToolCallId
                 /\ lastOp' = Op("submit", "resolved", currentToolCallId)
                 /\ UNCHANGED << promptQueue, queueEnabled, queueSaveTimer, nextItemId >>
            ELSE /\ posted' = << >>
                 /\ lastOp' = Op("submit", "ignored", NoId)
                 /\ UNCHANGED << pendingRequests, promptQueue, queueEnabled,
                                 currentSessionCalls, currentSessionCallsMap,
                                 currentToolCallId, queueSaveTimer, futures, nextItemId >>
       ELSE IF value # TextEmpty /\ Trim(value) # TextEmpty
            THEN /\ nextItemId <= MaxItems
                 /\ promptQueue' = Push(promptQueue,
                        QueuedPrompt(ProviderItemId(nextItemId), SubmitQueuedText(value)))
                 /\ nextItemId' = nextItemId + 1
                 /\ queueEnabled' = SubmitQueueMode
                 /\ queueSaveTimer' = SaveQueueToDisk
                 /\ posted' = Post(<< UpdateQueueMsg >>)
                 /\ lastOp' = Op("submit", "queued", ProviderItemId(nextItemId))
                 /\ UNCHANGED << pendingRequests, currentSessionCalls,
                                 currentSessionCallsMap, currentToolCallId, futures >>
            ELSE /\ posted' = << >>
                 /\ lastOp' = Op("submit", "ignored", NoId)
                 /\ UNCHANGED << pendingRequests, promptQueue, queueEnabled,
                                 currentSessionCalls, currentSessionCallsMap,
                                 currentToolCallId, queueSaveTimer, futures, nextItemId >>
    /\ UNCHANGED << view, webviewReady, pendingToolCallMessage, disposed,
                    nextCallId >>
    /\ returned' = AskUserReturns
    /\ UNCHANGED storeVars
    /\ UNCHANGED parseVars

\* Array.prototype.findIndex(p => p.id === id), 0 for -1
FindIndex(q, id) ==
    IF \E i \in 1..Len(q) : q[i].id = id
    THEN CHOOSE i \in 1..Len(q) :
             /\ q[i].id = id
             /\ \A j \in 1..(i - 1) : q[j].id # id
    ELSE 0

\* Array.prototype.splice(i, 1): the array without its i-th element
RemoveAt(q, i) == SubSeq(q, 1, i - 1) \o SubSeq(q, i + 1, Len(q))

\* Array.prototype.splice(i, 0, e): the array with e inserted before index i
InsertAt(q, i, e) == SubSeq(q, 1, i - 1) \o << e >> \o SubSeq(q, i, Len(q))

\* the text check without the ceiling
ValidPromptNoCeiling(trimmed) == trimmed # TextEmpty

\* the text check of _handleAddQueuePrompt and _handleEditQueuePrompt
ValidPrompt(trimmed) == trimmed # TextEmpty /\ TextLen(trimmed) <= MaxPromptLength

\* _handleAddQueuePrompt answers the current request with the new prompt
AddAutoResponds ==
    /\ queueEnabled
    /\ currentToolCallId # NoId
    /\ currentToolCallId \in pendingRequests

\* the index shift() would take, as in waitForUserResponse
ConsumedHeadIndex(q, id) == 1

\* the index of the prompt _handleAddQueuePrompt consumes: the one just added
ConsumedIndex(q, id) == FindIndex(q, id)

\* _handleAddQueuePrompt(prompt, id); the webview makes the id afresh
HandleAddQueuePrompt(prompt) ==
    /\ view
    /\ LET trimmed == Trim(prompt) IN
       IF ~ValidPrompt(trimmed)
       THEN /\ posted' = << >>
            /\ lastOp' = Op("addQueuePrompt", "rejected", NoId)
            /\ UNCHANGED << pendingRequests, promptQueue, queueEnabled,
                            currentSessionCalls, currentSessionCallsMap,
                            currentToolCallId, queueSaveTimer, futures, nextItemId >>
       ELSE
         /\ nextItemId <= MaxItems
         /\ nextItemId' = nextItemId + 1
         /\ queueSaveTimer' = SaveQueueToDisk
         /\ LET queuedPrompt == QueuedPrompt(nextItemId, trimmed)
                pushed == Push(promptQueue, queuedPrompt)
            IN
            IF AddAutoResponds
            THEN LET promptIndex == ConsumedIndex(pushed, queuedPrompt.id)
                     consumedPrompt == pushed[promptIndex]
                 IN
                 /\ promptQueue' = RemoveAt(pushed, promptIndex)
                 /\ currentSessionCalls' =
                        CompleteCall(currentToolCallId, consumedPrompt.prompt, TRUE)
                 /\ currentSessionCallsMap' =
                        currentSessionCallsMap \cup {currentToolCallId}
                 /\ posted' = Post(<< UpdateQueueMsg,
                                      ToolCallCompletedMsg(currentToolCallId),
                                      UpdateCurrentSessionMsg, UpdateQueueMsg >>)
                 /\ futures' = [futures EXCEPT ![currentToolCallId] =
                                    ResolveFuture(@, consumedPrompt.prompt, TRUE)]
                 /\ pendingRequests' = PendingRequestsDelete(currentToolCallId)
                 /\ currentToolCallId' = ClearedToolCallId
                 /\ lastOp' = Op("addQueuePrompt", "consumed", currentToolCallId)
                 /\ UNCHANGED queueEnabled
            ELSE /\ promptQueue' = pushed
                 /\ posted' = Post(<< UpdateQueueMsg >>)
                 /\ lastOp' = Op("addQueuePrompt", "queued", NoId)
                 /\ UNCHANGED << pendingRequests, queueEnabled, currentSessionCalls,
                                 currentSessionCallsMap, currentToolCallId, futures >>
    /\ UNCHANGED << view, webviewReady, pendingToolCallMessage, disposed,
                    nextCallId >>
    /\ returned' = AskUserReturns
    /\ UNCHANGED storeVars
    /\ UNCHANGED parseVars

\* Array.prototype.filter(p => p.id !== id)
RECURSIVE FilterOutId(_, _)
FilterOutId(q, id) ==
    IF q = << >> THEN << >>
    ELSE IF Head(q).id = id THEN FilterOutId(Tail(q), id)
         ELSE << Head(q) >> \o FilterOutId(Tail(q), id)

\* ids a webview message may name: those of the queue and one that is not there
QueueIdInputs == { promptQueue[i].id : i \in 1..Len(promptQueue) } \cup { NoId }

\* _handleRemoveQueuePrompt(promptId)
HandleRemoveQueuePrompt(promptId) ==
    /\ view
    /\ promptQueue' = FilterOutId(promptQueue, promptId)
    /\ queueSaveTimer' = SaveQueueToDisk
    /\ posted' = Post(<< UpdateQueueMsg >>)
    /\ lastOp' = Op("removeQueuePrompt", "", NoId)
    /\ UNCHANGED << view, webviewReady, pendingRequests, queueEnabled,
                    currentSessionCalls, currentSessionCallsMap,
                    currentToolCallId, pendingToolCallMessage, disposed,
                    futures, nextCallId, nextItemId >>
    /\ returned' = AskUserReturns
    /\ UNCHANGED storeVars
    /\ UNCHANGED parseVars

\* _handleEditQueuePrompt(promptId, newPrompt)
HandleEditQueuePrompt(promptId, newPrompt) ==
    /\ view
    /\ LET trimmed == Trim(newPrompt)
           i == FindIndex(promptQueue, promptId)
       IN
       IF ValidPrompt(trimmed) /\ i # 0
       THEN /\ promptQueue' = [promptQueue EXCEPT ![i].prompt = trimmed]
            /\ queueSaveTimer' = SaveQueueToDisk
            /\ posted' = Post(<< UpdateQueueMsg >>)
            /\ lastOp' = Op("editQueuePrompt", "edited", NoId)
       ELSE /\ posted' = << >>
            /\ lastOp' = Op("editQueuePrompt", "rejected", NoId)
            /\ UNCHANGED << promptQueue, queueSaveTimer >>
    /\ UNCHANGED << view, webviewReady, pendingRequests, queueEnabled,
                    currentSessionCalls, currentSessionCallsMap,
                    currentToolCallId, pendingToolCallMessage, disposed,
                    futures, nextCallId, nextItemId >>
    /\ returned' = AskUserReturns
    /\ UNCHANGED storeVars
    /\ UNCHANGED parseVars

\* an index sent by the webview: a number that may or may not be an integer;
\* val is the 0-based index when it is one
IndexInputs ==
    { [int |-> TRUE, val |-> v] : v \in -1..(Len(promptQueue)) }
        \cup { [int |-> FALSE, val |-> 0] }

\* the early returns without the test Number.isInteger
ReorderAcceptedAnyNumber(fromIndex, toIndex) ==
    /\ ~(fromIndex.val < 0 \/ toIndex.val < 0)
    /\ ~(fromIndex.val >= Len(promptQueue) \/ toIndex.val >= Len(promptQueue))

\* the three early returns of _handleReorderQueue
ReorderAccepted(fromIndex, toIndex) ==
    /\ fromIndex.int /\ toIndex.int
    /\ ~(fromIndex.val < 0 \/ toIndex.val < 0)
    /\ ~(fromIndex.val >= Len(promptQueue) \/ toIndex.val >= Len(promptQueue))

\* _handleReorderQueue(fromIndex, toIndex)
HandleReorderQueue(fromIndex, toIndex) ==
    /\ view
    /\ IF ReorderAccepted(fromIndex, toIndex)
       THEN LET removed == promptQueue[fromIndex.val + 1]
                rest == RemoveAt(promptQueue, fromIndex.val + 1)
            IN
            /\ promptQueue' = InsertAt(rest, toIndex.val + 1, removed)
            /\ queueSaveTimer' = SaveQueueToDisk
            /\ posted' = Post(<< UpdateQueueMsg >>)
            /\ lastOp' = Op("reorderQueue", "moved", NoId)
       ELSE /\ posted' = << >>
            /\ lastOp' = Op("reorderQueue", "rejected", NoId)
            /\ UNCHANGED << promptQueue, queueSaveTimer >>
    /\ UNCHANGED << view, webviewReady, pendingRequests, queueEnabled,
                    currentSessionCalls, currentSessionCallsMap,
                    currentToolCallId, pendingToolCallMessage, disposed,
                    futures, nextCallId, nextItemId >>
    /\ returned' = AskUserReturns
    /\ UNCHANGED storeVars
    /\ UNCHANGED parseVars

\* _handleToggleQueue(enabled)
HandleToggleQueue(enabled) ==
    /\ view
    /\ queueEnabled' = enabled
    /\ queueSaveTimer' = SaveQueueToDisk
    /\ posted' = Post(<< UpdateQueueMsg >>)
    /\ lastOp' = Op("toggleQueue", "", NoId)
    /\ UNCHANGED << view, webviewReady, pendingRequests, promptQueue,
                    currentSessionCalls, currentSessionCallsMap,
                    currentToolCallId, pendingToolCallMessage, disposed,
                    futures, nextCallId, nextItemId >>
    /\ returned' = AskUserReturns
    /\ UNCHANGED storeVars
    /\ UNCHANGED parseVars

\* _handleClearQueue
HandleClearQueue ==
    /\ view
    /\ promptQueue' = << >>
    /\ queueSaveTimer' = SaveQueueToDisk
    /\ posted' = Post(<< UpdateQueueMsg >>)
    /\ lastOp' = Op("clearQueue", "", NoId)
    /\ UNCHANGED << view, webviewReady, pendingRequests, queueEnabled,
                    currentSessionCalls, currentSessionCallsMap,
                    currentToolCallId, pendingToolCallMessage, disposed,
                    futures, nextCallId, nextItemId >>
    /\ returned' = AskUserReturns
    /\ UNCHANGED storeVars
    /\ UNCHANGED parseVars

\* a cancellation that drops the request: its resolver is removed and the
\* current tool call id is cleared
CancelRequestRejects(id) ==
    /\ id \in DOMAIN futures
    /\ futures[id].state = "unresolved"
    /\ pendingRequests' = pendingRequests \ {id}
    /\ currentToolCallId' = IF currentToolCallId = id THEN NoId ELSE currentToolCallId
    /\ posted' = << >>
    /\ lastOp' = Op("cancel", "", id)
    /\ returned' = << >>
    /\ UNCHANGED << view, webviewReady, promptQueue, queueEnabled,
                    currentSessionCalls, currentSessionCallsMap,
                    pendingToolCallMessage, queueSaveTimer, disposed, futures,
                    nextCallId, nextItemId >>
    /\ UNCHANGED storeVars
    /\ UNCHANGED parseVars

\* the agent cancels a call that is waiting (the MCP abort signal cancels the
\* token source, the language model tool passes its token): askUser never
\* looks at the token, so nothing happens
CancelRequest(id) ==
    /\ id \in DOMAIN futures
    /\ futures[id].state = "unresolved"
    /\ posted' = << >>
    /\ lastOp' = Op("cancel", "", id)
    /\ returned' = << >>
    /\ UNCHANGED << view, webviewReady, pendingRequests, promptQueue,
                    queueEnabled, currentSessionCalls, currentSessionCallsMap,
                    currentToolCallId, pendingToolCallMessage, queueSaveTimer,
                    disposed, futures, nextCallId, nextItemId >>
    /\ UNCHANGED storeVars
    /\ UNCHANGED parseVars

\* dispose() that does what its comment says ("reject any waiting promises")
DisposeRejects ==
    /\ queueSaveTimer' = "none"
    /\ currentSessionCallsMap' = {}
    /\ pendingRequests' = {}
    /\ currentSessionCalls' = << >>
    /\ view' = FALSE
    /\ posted' = << >>
    /\ disposed' = TRUE
    /\ futures' = [id \in DOMAIN futures |->
                      IF id \in pendingRequests
                      THEN [futures[id] EXCEPT !.state = "rejected"]
                      ELSE futures[id]]
    /\ lastOp' = Op("dispose", "", NoId)
    /\ UNCHANGED << webviewReady, promptQueue, queueEnabled, currentToolCallId,
                    pendingToolCallMessage, nextCallId, nextItemId >>
    /\ returned' = << >>
    /\ UNCHANGED storeVars
    /\ UNCHANGED parseVars

\* dispose()
Dispose ==
    /\ queueSaveTimer' = "none"
    /\ currentSessionCallsMap' = {}
    /\ pendingRequests' = {}
    /\ currentSessionCalls' = << >>
    /\ view' = FALSE
    /\ posted' = << >>
    /\ disposed' = TRUE
    /\ lastOp' = Op("dispose", "", NoId)
    /\ UNCHANGED << webviewReady, promptQueue, queueEnabled, currentToolCallId,
                    pendingToolCallMessage, futures, nextCallId, nextItemId >>
    /\ returned' = AskUserReturns
    /\ UNCHANGED storeVars
    /\ UNCHANGED parseVars

\* ------------------------------------------------------------------ storage steps

\* the variables of the broker, which the storage steps leave alone
brokerVars == << view, webviewReady, pendingRequests, currentSessionCalls,
                 currentSessionCallsMap, currentToolCallId,
                 pendingToolCallMessage, disposed, futures, nextCallId,
                 nextItemId >>

\* a load that keeps what the document holds although it could not be read
QueueKeptAsFound(doc) == [queue |-> doc.queue, enabled |-> doc.enabled]

\* the queue state _loadQueueFromDiskAsync leaves for a document
QueueFromDocument(doc) ==
    IF doc.kind \in { "missing", "unparsable" }
    THEN [queue |-> << >>, enabled |-> TRUE]
    ELSE [queue |-> IF doc.kind = "noQueue" THEN << >> ELSE doc.queue,
          enabled |-> (doc.kind # "noEnabled" /\ doc.enabled = TRUE)]

\* _loadQueueFromDiskAsync, from the read of the file to its end
LoadQueueFromDiskAsync ==
    /\ ~queueLoaded
    /\ queueLoaded' = TRUE
    /\ promptQueue' = QueueFromDocument(queueDisk).queue
    /\ queueEnabled' = QueueFromDocument(queueDisk).enabled
    /\ posted' = << >>
    /\ lastOp' = Op("loadQueue", queueDisk.kind, NoId)
    /\ returned' = << >>
    /\ UNCHANGED brokerVars
    /\ UNCHANGED parseVars
    /\ UNCHANGED << queueSaveTimer, webviewProvider, persistedHistory,
                    historyDisk, historyLoaded, queueDisk, queueWrites >>

\* the history _loadPersistedHistoryFromDiskAsync leaves for a document
HistoryFromDocument(doc) ==
    IF doc.kind = "json"
    THEN Slice(FilterCompleted(doc.history), MaxHistoryEntries)
    ELSE << >>

\* _loadPersistedHistoryFromDiskAsync, from the read of the file to its end
LoadPersistedHistoryFromDiskAsync ==
    /\ ~historyLoaded
    /\ historyLoaded' = TRUE
    /\ persistedHistory' = HistoryFromDocument(historyDisk)
    /\ posted' = << >>
    /\ lastOp' = Op("loadHistory", historyDisk.kind, NoId)
    /\ returned' = << >>
    /\ UNCHANGED brokerVars
    /\ UNCHANGED parseVars
    /\ UNCHANGED << promptQueue, queueEnabled, queueSaveTimer, webviewProvider,
                    historyDisk, queueDisk, queueLoaded, queueWrites >>

MaxWrites == 2

\* the debounce timer expires: _saveQueueToDiskAsync serialises the queue state
\* and starts writing it.  The expired handle is never used again, so the
\* timer counts as not armed.
QueueSaveTimerFires ==
    /\ queueSaveTimer = "armed"
    /\ Len(queueWrites) < MaxWrites
    /\ queueSaveTimer' = "none"
    /\ queueWrites' = Append(queueWrites, QueueDoc("json", promptQueue, queueEnabled))
    /\ posted' = << >>
    /\ lastOp' = Op("queueSaveTimer", "", NoId)
    /\ returned' = << >>
    /\ UNCHANGED brokerVars
    /\ UNCHANGED parseVars
    /\ UNCHANGED << promptQueue, queueEnabled, webviewProvider, persistedHistory,
                    historyDisk, historyLoaded, queueDisk, queueLoaded >>

\* fs.promises.writeFile of _saveQueueToDiskAsync ends: the document is
\* replaced, or the write failed and the error is logged.  Writes that overlap
\* end in either order.
QueueWriteEnds(i, ok) ==
    /\ i \in 1..Len(queueWrites)
    /\ queueDisk' = IF ok THEN queueWrites[i] ELSE queueDisk
    /\ queueWrites' = RemoveAt(queueWrites, i)
    /\ posted' = << >>
    /\ lastOp' = Op("queueWrite", IF ok THEN "written" ELSE "failed", NoId)
    /\ returned' = << >>
    /\ UNCHANGED brokerVars
    /\ UNCHANGED parseVars
    /\ UNCHANGED << promptQueue, queueEnabled, queueSaveTimer, webviewProvider,
                    persistedHistory, historyDisk, historyLoaded, queueLoaded >>

\* _savePersistedHistoryToDiskSync: the document after a write that succeeded
\* (ok) or failed
SavePersistedHistoryToDisk(history, ok) ==
    IF ok THEN HistoryDoc("json", FilterCompleted(history)) ELSE historyDisk

\* the completed calls saveSessionToHistory takes from the session
CompletedCalls == FilterCompleted(SessionAsHistory(currentSessionCalls))

\* the completed calls put behind the persisted entries
SavedHistoryAppended == Slice(persistedHistory \o CompletedCalls, MaxHistoryEntries)

\* the history saveSessionToHistory keeps
SavedHistory == Slice(CompletedCalls \o persistedHistory, MaxHistoryEntries)

\* saveSessionToHistory()
SaveSessionToHistory(ok) ==
    IF HistoryLen(CompletedCalls) > 0
    THEN /\ persistedHistory' = SavedHistory
         /\ historyDisk' = SavePersistedHistoryToDisk(SavedHistory, ok)
    ELSE UNCHANGED << persistedHistory, historyDisk >>

\* deactivate() that keeps its reference to the provider
ProviderKept == webviewProvider

\* deactivate(): webviewProvider = undefined
ProviderDropped == FALSE

\* deactivate() of the extension
Deactivate(ok) ==
    /\ IF webviewProvider
       THEN /\ SaveSessionToHistory(ok)
            /\ webviewProvider' = ProviderDropped
       ELSE UNCHANGED << persistedHistory, historyDisk, webviewProvider >>
    /\ posted' = << >>
    /\ lastOp' = Op("deactivate", IF webviewProvider THEN "saved" ELSE "", NoId)
    /\ returned' = << >>
    /\ UNCHANGED brokerVars
    /\ UNCHANGED parseVars
    /\ UNCHANGED << promptQueue, queueEnabled, queueSaveTimer, historyLoaded,
                    queueDisk, queueLoaded, queueWrites >>

UpdatePersistedHistoryMsg == Msg("updatePersistedHistory", NoId, "")

\* ids a removeHistoryItem message may name: those of this session's calls,
\* the oldest one an earlier session left, and one that is not there
HistoryIdInputs == (1..MaxCalls) \cup { StoredIdBase, NoId }

\* _handleRemoveHistoryItem(callId)
HandleRemoveHistoryItem(callId, ok) ==
    /\ view
    /\ persistedHistory' = FilterOutCall(persistedHistory, callId)
    /\ historyDisk' = SavePersistedHistoryToDisk(persistedHistory', ok)
    /\ posted' = Post(<< UpdatePersistedHistoryMsg >>)
    /\ lastOp' = Op("removeHistoryItem", "", callId)
    /\ returned' = << >>
    /\ UNCHANGED brokerVars
    /\ UNCHANGED parseVars
    /\ UNCHANGED << promptQueue, queueEnabled, queueSaveTimer, webviewProvider,
                    historyLoaded, queueDisk, queueLoaded, queueWrites >>

\* _handleClearPersistedHistory
HandleClearPersistedHistory(ok) ==
    /\ view
    /\ persistedHistory' = << >>
    /\ historyDisk' = SavePersistedHistoryToDisk(<< >>, ok)
    /\ posted' = Post(<< UpdatePersistedHistoryMsg >>)
    /\ lastOp' = Op("clearPersistedHistory", "", NoId)
    /\ returned' = << >>
    /\ UNCHANGED brokerVars
    /\ UNCHANGED parseVars
    /\ UNCHANGED << promptQueue, queueEnabled, queueSaveTimer, webviewProvider,
                    historyLoaded, queueDisk, queueLoaded, queueWrites >>

\* ------------------------------------------------------------------ Spec

Next ==
    \/ \E question \in QuestionInputs(nextCallId) : WaitForUserResponse(question)
    \/ ResolveWebviewView
    \/ OnDidDispose
    \/ HandleWebviewReady
    \/ \E value \in SubmitInputs : HandleSubmit(value)
    \/ \E prompt \in AddInputs : HandleAddQueuePrompt(prompt)
    \/ \E promptId \in QueueIdInputs : HandleRemoveQueuePrompt(promptId)
    \/ \E promptId \in QueueIdInputs, newPrompt \in EditInputs :
           HandleEditQueuePrompt(promptId, newPrompt)
    \/ \E fromIndex \in IndexInputs, toIndex \in IndexInputs :
           HandleReorderQueue(fromIndex, toIndex)
    \/ \E enabled \in BOOLEAN : HandleToggleQueue(enabled)
    \/ HandleClearQueue
    \/ \E id \in DOMAIN futures : CancelRequest(id)
    \/ Dispose

Spec == Init /\ [][Next]_vars

\* ------------------------------------------------------------------ storage specifications

\* The extension after its activation: the provider has been constructed and
\* the two documents are as an earlier session or something else left them.
\* A load that is over has found its document absent.
StoreStart(historyDocs, historyDone, queueDocs, queueDone) ==
    /\ view = FALSE
    /\ webviewReady = FALSE
    /\ pendingRequests = {}
    /\ promptQueue = << >>
    /\ queueEnabled = TRUE
    /\ currentSessionCalls = << >>
    /\ currentSessionCallsMap = {}
    /\ currentToolCallId = NoId
    /\ pendingToolCallMessage = NoMessage
    /\ queueSaveTimer = "none"
    /\ disposed = FALSE
    /\ futures = << >>
    /\ posted = << >>
    /\ lastOp = NoOp
    /\ nextCallId = 1
    /\ nextItemId = 1
    /\ returned = << >>
    /\ webviewProvider = TRUE
    /\ persistedHistory = << >>
    /\ historyDisk \in historyDocs
    /\ historyLoaded = historyDone
    /\ queueDisk \in queueDocs
    /\ queueLoaded = queueDone
    /\ queueWrites = << >>
    /\ parsedText = NoText
    /\ choices = NotCalled
    /\ approval = NotCalled

\* The start-up: both loads are running while the first requests and queue
\* prompts arrive.
StartupInit ==
    StoreStart(HistoryDiskInputs \cup HistoryShapeInputs, FALSE,
               QueueDiskInputs \cup QueueShapeInputs, FALSE)

StartupNext ==
    \/ LoadQueueFromDiskAsync
    \/ LoadPersistedHistoryFromDiskAsync
    \/ ResolveWebviewView
    \/ WaitForUserResponse("q1")
    \/ HandleSubmit(TextBPadded)
    \/ HandleAddQueuePrompt(TextA)

StartupSpec == StartupInit /\ [][StartupNext]_vars

\* The history side: the session's calls, the loading of tool-history.json,
\* the saving at deactivation and the history handlers.  queue.json is absent.
\* The steps left out (queue handlers other than the addition, readiness, view
\* disposal) leave the session's entries and the history as they are.
HistoryInit ==
    StoreStart(HistoryDiskInputs, FALSE, { QueueDoc("missing", << >>, FALSE) }, TRUE)

HistoryNext ==
    \/ LoadPersistedHistoryFromDiskAsync
    \/ ResolveWebviewView
    \/ WaitForUserResponse("q1")
    \/ HandleSubmit(TextBPadded)
    \/ HandleAddQueuePrompt(TextA)
    \/ \E ok \in BOOLEAN : Deactivate(ok)
    \/ \E callId \in HistoryIdInputs, ok \in BOOLEAN : HandleRemoveHistoryItem(callId, ok)
    \/ \E ok \in BOOLEAN : HandleClearPersistedHistory(ok)
    \/ Dispose

HistorySpec == HistoryInit /\ [][HistoryNext]_vars

\* The queue side: the loading of queue.json, the queue handlers, the debounce
\* timer and the writes it starts.  tool-history.json is absent.  The steps
\* left out (submit, edit, remove, reorder, readiness, view disposal, history
\* handlers) call _saveQueueToDisk as the ones kept do, or do not touch the
\* queue.
QueueInit ==
    StoreStart({ HistoryDoc("missing", << >>) }, TRUE, QueueDiskInputs, FALSE)

QueueNext ==
    \/ LoadQueueFromDiskAsync
    \/ ResolveWebviewView
    \/ WaitForUserResponse("q1")
    \/ HandleAddQueuePrompt(TextA)
    \/ \E enabled \in BOOLEAN : HandleToggleQueue(enabled)
    \/ HandleClearQueue
    \/ QueueSaveTimerFires
    \/ \E i \in 1..Len(queueWrites), ok \in BOOLEAN : QueueWriteEnds(i, ok)
    \/ Dispose

QueueSpec == QueueInit /\ [][QueueNext]_vars

\* The queue editor: the queue handlers of the webview, the debounce timer and
\* the writes it starts, with no request in play.  Both documents are absent
\* and both loads are over.
EditNext ==
    \/ ResolveWebviewView
    \/ \E prompt \in AddInputs : HandleAddQueuePrompt(prompt)
    \/ \E promptId \in QueueIdInputs : HandleRemoveQueuePrompt(promptId)
    \/ \E promptId \in QueueIdInputs, newPrompt \in EditInputs :
           HandleEditQueuePrompt(promptId, newPrompt)
    \/ \E fromIndex \in IndexInputs, toIndex \in IndexInputs :
           HandleReorderQueue(fromIndex, toIndex)
    \/ HandleClearQueue
    \/ QueueSaveTimerFires
    \/ \E i \in 1..Len(queueWrites), ok \in BOOLEAN : QueueWriteEnds(i, ok)

EditSpec == Init /\ [][EditNext]_vars

\* The idle panel: what the webview can put into the queue while no request is
\* pending, a text over the ceiling included.  No write is started.
IdleNext ==
    \/ ResolveWebviewView
    \/ \E value \in IdleSubmitInputs : HandleSubmit(value)
    \/ \E prompt \in AddInputs : HandleAddQueuePrompt(prompt)
    \/ \E promptId \in QueueIdInputs : HandleRemoveQueuePrompt(promptId)
    \/ \E promptId \in QueueIdInputs, newPrompt \in EditInputs :
           HandleEditQueuePrompt(promptId, newPrompt)
    \/ \E enabled \in BOOLEAN : HandleToggleQueue(enabled)

IdleSpec == Init /\ [][IdleNext]_vars

\* The writer: queue mutations, the debounce timer and writes that all succeed
\* and may overlap.  Both documents are absent and both loads are over.
WriteNext ==
    \/ ResolveWebviewView
    \/ HandleAddQueuePrompt(TextA)
    \/ \E enabled \in BOOLEAN : HandleToggleQueue(enabled)
    \/ HandleClearQueue
    \/ QueueSaveTimerFires
    \/ \E i \in 1..Len(queueWrites) : QueueWriteEnds(i, TRUE)

WriteSpec == Init /\ [][WriteNext]_vars

\* The writer until the provider is disposed: the specification of the writer
\* with dispose().  The debounce timer is a setTimeout and the write a
\* fs.promises.writeFile: the event loop runs the callback of a timer that
\* stays armed and completes a write that has been started, hence the weak
\* fairness of the two steps.
DurableNext ==
    \/ ResolveWebviewView
    \/ HandleAddQueuePrompt(TextA)
    \/ \E enabled \in BOOLEAN : HandleToggleQueue(enabled)
    \/ HandleClearQueue
    \/ QueueSaveTimerFires
    \/ \E i \in 1..Len(queueWrites) : QueueWriteEnds(i, TRUE)
    \/ Dispose

DurableSpec ==
    /\ Init
    /\ [][DurableNext]_vars
    /\ WF_vars(QueueSaveTimerFires)
    /\ WF_vars(\E i \in 1..Len(queueWrites) : QueueWriteEnds(i, TRUE))

\* ------------------------------------------------------------------ classifier specification

\* the questions put to _parseChoices and _isApprovalQuestion
QuestionTexts ==
    { ColorQuestion, ListThenExample, HeadingThenList, ListWithGap,
      ListFromTen, ListFromTenAfterLine, ProceedAndEnter,
      << "S", "h", "o", "u", "l", "d", " ", "I", " ", "p", "r", "o", "c",
         "e", "e", "d", " ", "w", "i", "t", "h", " ", "t", "h", "e", " ",
         "d", "e", "p", "l", "o", "y", "m", "e", "n", "t", "?" >>,
      << "W", "h", "a", "t", " ", "f", "i", "l", "e", "n", "a", "m", "e",
         " ", "s", "h", "o", "u", "l", "d", " ", "I", " ", "u", "s", "e",
         "?" >>,
      << "1", ".", " ", "O", "p", "t", "i", "o", "n", " ", "A", NL, "2", ".",
         " ", "O", "p", "t", "i", "o", "n", " ", "B", NL, "W", "h", "i", "c",
         "h", " ", "o", "n", "e", "?" >>,
      << "S", "h", "a", "l", "l", " ", "I", " ", "p", "r", "o", "c", "e",
         "e", "d", "?", NL, "3", "]", " ", "Y", "e", "s", NL, "1", "0", ".",
         " ", "Y", "e", "s", " ", "p", "l", "e", "a", "s", "e", NL, "1", "1",
         ".", " ", "N", "o", " ", "t", "h", "a", "n", "k", "s" >>,
      << "9", ".", " ", "P", "r", "o", "c", "e", "e", "d", NL, "1", "0", ".",
         " ", "C", "a", "n", "c", "e", "l" >>,
      << "P", "r", "o", "c", "e", "e", "d", "?", NL, "1", ".", " ", "Y", "e",
         "s", NL, "2", ".", " ", "N", "o" >>,
      << "1", ".", " ", "R", "e", "d", NL, "2", ".", " ", "B", "l", "u", "e",
         NL, "1", ".", " ", "A", "l", "p", "h", "a", NL, "2", ".", " ", "B",
         "e", "t", "a" >>,
      << "1", ".", " ", "R", "e", "d", NL, "2", ".", " ", "B", "l", "u", "e",
         NL, NL, NL, NL, NL, NL, "3", ".", " ", "G", "r", "e", "e", "n" >>,
      << "A", ".", " ", "A", "p", "p", "l", "e", NL, "B", ".", " ", "B", "a",
         "n", "a", "n", "a", NL, "W", "h", "i", "c", "h", "?" >>,
      << "O", "p", "t", "i", "o", "n", " ", "A", ":", " ", "f", "a", "s",
         "t", " ", "O", "p", "t", "i", "o", "n", " ", "B", ":", " ", "s",
         "l", "o", "w" >>,
      << "P", "i", "c", "k", " ", "1", ".", " ", "R", "e", "d", " ", "2",
         ".", " ", "B", "l", "u", "e", " ", "3", ".", " ", "G", "r", "e",
         "e", "n" >>,
      << "1", ".", " ", "*", "*", "B", "o", "l", "d", " ", "i", "t", "e",
         "m", "*", "*", NL, "2", ".", " ", "A", " ", "v", "e", "r", "y", " ",
         "l", "o", "n", "g", " ", "l", "a", "b", "e", "l", " ", "t", "h",
         "a", "t", " ", "g", "o", "e", "s", " ", "o", "n", " ", "w", "e",
         "l", "l", " ", "b", "e", "y", "o", "n", "d", " ", "f", "o", "r",
         "t", "y", " ", "c", "h", "a", "r", "a", "c", "t", "e", "r", "s",
         "?", "!" >>,
      << "S", "h", "o", "u", "l", "d", " ", "I", " ", "c", "o", "n", "t",
         "i", "n", "u", "e", "?" >>,
      << "W", "h", "i", "c", "h", " ", "f", "i", "l", "e", " ", "s", "h",
         "o", "u", "l", "d", " ", "I", " ", "e", "d", "i", "t", "?" >>,
      << "P", "l", "e", "a", "s", "e", " ", "s", "e", "l", "e", "c", "t",
         " ", "o", "n", "e", " ", "o", "p", "t", "i", "o", "n" >>,
      << "o", "k", " ", "t", "o", " ", "g", "o", " ", "a", "h", "e", "a",
         "d", "?", " ", " " >>,
      << "D", "o", "n", "e", "." >>,
      << "L", "e", "t", " ", "m", "e", " ", "k", "n", "o", "w", " ", "i",
         "f", " ", "I", " ", "s", "h", "o", "u", "l", "d", " ", "p", "r",
         "o", "c", "e", "e", "d" >>,
      << "I", "s", " ", "t", "h", "i", "s", " ", "o", "k", "?" >>,
      << "C", "o", "n", "t", "i", "n", "u", "e", "?", " ", "(", "y", "/",
                                                             "n", ")" >>,
      << "D", "o", " ", "y", "o", "u", " ", "w", "a", "n", "t", " ", "m",
         "e", " ", "t", "o", " ", "c", "o", "n", "t", "i", "n", "u", "e",
         ",", " ", "o", "r", " ", "t", "e", "l", "l", " ", "m", "e", " ",
         "w", "h", "a", "t", " ", "t", "o", " ", "c", "h", "a", "n", "g",
         "e", "?" >>,
      << "1", ".", " ", "a", "b", NL, "2", ".", " ", "c", "d", NL, "3", ".",
         " ", "e", "f", "g", NL, "4", ".", " ", "h", "i", "j" >>,
      << "1", ")", " ", "P", "r", "o", "c", "e", "e", "d", " ", "n", "o",
          "w", NL, "S", "h", "a", "l", "l", " ", "I", " ", "p", "r", "o",
          "c", "e", "e", "d", "?" >>,
      << "W", "h", "a", "t", "'", "s", " ", "y", "o", "u", "r", " ", "f",
         "a", "v", "o", "r", "i", "t", "e", " ", "c", "o", "l", "o", "r",
         "?", " ", "E", "x", "a", "m", "p", "l", "e", ":", " ", "1", ")",
         " ", "r", "e", "d", " ", "2", ")", " ", "b", "l", "u", "e" >>,
      << >> }

\* The classifiers are pure: a question is given, and each of the two is
\* applied to it once, in either order.
ParseInit ==
    /\ view = FALSE
    /\ webviewReady = FALSE
    /\ pendingRequests = {}
    /\ promptQueue = << >>
    /\ queueEnabled = TRUE
    /\ currentSessionCalls = << >>
    /\ currentSessionCallsMap = {}
    /\ currentToolCallId = NoId
    /\ pendingToolCallMessage = NoMessage
    /\ queueSaveTimer = "none"
    /\ disposed = FALSE
    /\ futures = << >>
    /\ posted = << >>
    /\ lastOp = NoOp
    /\ nextCallId = 1
    /\ nextItemId = 1
    /\ returned = << >>
    /\ webviewProvider = TRUE
    /\ persistedHistory = << >>
    /\ historyDisk = HistoryDoc("missing", << >>)
    /\ historyLoaded = TRUE
    /\ queueDisk = QueueDoc("missing", << >>, FALSE)
    /\ queueLoaded = TRUE
    /\ queueWrites = << >>
    /\ parsedText \in QuestionTexts
    /\ choices = NotCalled
    /\ approval = NotCalled

\* _parseChoices(question)
CallParseChoices ==
    /\ choices = NotCalled
    /\ choices' = Returned(ParseChoices(parsedText))
    /\ UNCHANGED << parsedText, approval >>
    /\ UNCHANGED << promptQueue, queueEnabled, queueSaveTimer, posted, lastOp,
                    returned >>
    /\ UNCHANGED brokerVars
    /\ UNCHANGED storeVars

\* _isApprovalQuestion(question)
CallIsApprovalQuestion ==
    /\ approval = NotCalled
    /\ approval' = Returned(IsApprovalQuestion(parsedText))
    /\ UNCHANGED << parsedText, choices >>
    /\ UNCHANGED << promptQueue, queueEnabled, queueSaveTimer, posted, lastOp,
                    returned >>
    /\ UNCHANGED brokerVars
    /\ UNCHANGED storeVars

ParseNext ==
    \/ CallParseChoices
    \/ CallIsApprovalQuestion

ParseSpec == ParseInit /\ [][ParseNext]_vars

\* ------------------------------------------------------------------ claims

\* positions of the session entries that are Pending
PendingEntries ==
    { i \in 1..Len(currentSessionCalls) : currentSessionCalls[i].status = "pending" }

\* ids of the Pending entries of a session list
PendingIds(calls) == { calls[i].id : i \in { j \in 1..Len(calls) : calls[j].status = "pending" } }

\* ids of the Completed entries of a session list
CompletedIds(calls) ==
    { calls[i].id : i \in { j \in 1..Len(calls) : calls[j].status = "completed" } }

IsToolCallPending(m) == m.type = "toolCallPending"

\* the toolCallPending notifications among the messages of a step
PendingNotifications(msgs) == SelectSeq(msgs, IsToolCallPending)

Resolved(f, id) == id \in DOMAIN f /\ f[id].state = "resolved"

\* the futures the step resolves
NewlyResolved ==
    { id \in DOMAIN futures' : Resolved(futures', id) /\ ~Resolved(futures, id) }

\* the texts a valid addQueuePrompt can store
AddedTexts == { Trim(p) : p \in { q \in AddInputs : ValidPrompt(Trim(q)) } }

\* C1: after any sequence of ask, submit, queue edit, readiness and view
\* destroy/recreate steps, at most one entry of the current session is Pending.
C1_AtMostOnePending == Cardinality(PendingEntries) <= 1

\* C2: a Future is resolved at most once, by one submit value or one queue
\* item; a resolved Future never changes again; and the step that resolves it
\* removes its resolver and clears the current tool call id.
C2_ResolvedAtMostOnce ==
    [][ /\ \A id \in DOMAIN futures' : futures'[id].calls <= 1
        /\ \A id \in DOMAIN futures :
               Resolved(futures, id) => futures'[id] = futures[id]
        /\ Cardinality(NewlyResolved) <= 1
        /\ \A id \in NewlyResolved :
               /\ id \notin pendingRequests'
               /\ currentToolCallId' = NoId
               /\ \/ lastOp'.op = "submit" /\ futures'[id].value \in SubmitInputs
                  \/ /\ lastOp'.op = "ask"
                     /\ promptQueue # << >>
                     /\ futures'[id].value = Head(promptQueue).prompt
                  \/ lastOp'.op = "addQueuePrompt" /\ futures'[id].value \in AddedTexts
      ]_vars

\* C2 witness: a Future was resolved, and a later submit or queue addition
\* found nothing to resolve
C2_Witness ==
    \E id \in DOMAIN futures :
        /\ futures[id].state = "resolved"
        /\ futures[id].calls = 1
        /\ id \notin pendingRequests
        /\ lastOp.op \in { "submit", "addQueuePrompt" }
        /\ lastOp.out = "queued"

AddAccepted == lastOp'.op = "addQueuePrompt" /\ nextItemId' = nextItemId + 1

\* the request under the current tool call id is Pending
CurrentIsPending ==
    /\ currentToolCallId # NoId
    /\ MapHas(currentToolCallId)
    /\ MapGet(currentToolCallId).status = "pending"

NoRequestToResolve ==
    ~(currentToolCallId # NoId /\ currentToolCallId \in pendingRequests)

\* C5 as stated: the value of a submit that matched no pending request never
\* becomes the answer to a request: no ask is answered with a queue item that
\* such a submit left behind.
C5_StaleValueNeverAnswers ==
    [][ (lastOp'.op = "ask" /\ lastOp'.out = "auto")
            => ~MadeByProvider(Head(promptQueue).id)
      ]_vars

\* C5 amended: a submit that finds no pending request changes no session
\* entry and resolves no Future in that step; its value is not dropped: when
\* it is not blank it is stored, trimmed, as a new item at the tail of the
\* queue (from where it can answer a later request); when blank, the queue is
\* as before.
C5_StaleSubmitIsQueued ==
    [][ \A value \in SubmitInputs :
            (HandleSubmit(value) /\ NoRequestToResolve)
                => /\ currentSessionCalls' = currentSessionCalls
                   /\ futures' = futures
                   /\ pendingRequests' = pendingRequests
                   /\ PendingNotifications(posted') = << >>
                   /\ IF Trim(value) = TextEmpty
                      THEN promptQueue' = promptQueue
                      ELSE promptQueue' =
                               Append(promptQueue,
                                      QueuedPrompt(ProviderItemId(nextItemId),
                                                   Trim(value)))
      ]_vars

\* C5 witness: a Future was resolved by a submit, and a second submit of the
\* same value has been stored in the queue
C5_Witness ==
    /\ lastOp.op = "submit"
    /\ lastOp.out = "queued"
    /\ \E id \in DOMAIN futures :
           /\ futures[id].state = "resolved"
           /\ futures[id].value = TextBPadded
    /\ promptQueue[Len(promptQueue)] = QueuedPrompt(lastOp.id, Trim(TextBPadded))

\* C6 as stated: a submit that arrives when no request is pending leaves the
\* queue, the queue mode, the session entries and the current tool call id
\* unchanged.
C6_SubmitWithoutPendingIsNoOp ==
    [][ (lastOp'.op = "submit" /\ pendingRequests = {} /\ PendingEntries = {})
            => UNCHANGED << promptQueue, queueEnabled, currentSessionCalls,
                            currentToolCallId >>
      ]_vars

\* C6 amended: a submit that arrives when no request is pending leaves the
\* session entries and the current tool call id unchanged; a blank value also
\* leaves the queue and the queue mode unchanged; any other value adds one
\* item holding the trimmed value behind the items already queued, which keep
\* their order, and turns queue mode on.
C6_SubmitWithoutPendingFrame ==
    [][ \A value \in SubmitInputs :
            (HandleSubmit(value) /\ (pendingRequests = {} \/ currentToolCallId = NoId))
                => /\ UNCHANGED << currentSessionCalls, currentToolCallId >>
                   /\ IF Trim(value) = TextEmpty
                      THEN UNCHANGED << promptQueue, queueEnabled >>
                      ELSE /\ Len(promptQueue') = Len(promptQueue) + 1
                           /\ SubSeq(promptQueue', 1, Len(promptQueue)) = promptQueue
                           /\ promptQueue'[Len(promptQueue')].prompt = Trim(value)
                           /\ queueEnabled'
      ]_vars

\* C6 witness: with no request pending, a submit has been stored behind the
\* item already queued, and queue mode is on
C6_Witness ==
    /\ lastOp.op = "submit"
    /\ lastOp.out = "queued"
    /\ pendingRequests = {}
    /\ currentToolCallId = NoId
    /\ queueEnabled
    /\ Len(promptQueue) = 2
    /\ promptQueue[2].prompt = TextB

\* C7: whenever a queued prompt is consumed to answer a question, at ask time
\* or by an addition made while the request is pending, the consumed item is
\* the head of the queue at that moment (for an addition: of the queue with
\* the new item appended), and the rest of the queue stays in order.
C7_ConsumedItemIsHead ==
    [][ /\ (lastOp'.op = "ask" /\ lastOp'.out = "auto")
               => /\ futures'[nextCallId].value = Head(promptQueue).prompt
                  /\ promptQueue' = Tail(promptQueue)
        /\ (lastOp'.op = "addQueuePrompt" /\ lastOp'.out = "consumed")
               => \E text \in AddedTexts :
                      LET pushed == Append(promptQueue, QueuedPrompt(nextItemId, text))
                      IN  /\ futures'[currentToolCallId].value = Head(pushed).prompt
                          /\ promptQueue' = Tail(pushed)
      ]_vars

\* C8: an ask that leaves its request pending while a view is attached but
\* not ready posts no toolCallPending and buffers the question; from then on,
\* while the request is unanswered, the buffered question stays as it is until
\* a webviewReady step posts exactly one toolCallPending, with that request's
\* id and text.
C8_BufferedQuestionReplayed ==
    [][ /\ (lastOp'.op = "ask" /\ lastOp'.out = "pending" /\ view /\ ~webviewReady)
               => /\ PendingNotifications(posted') = << >>
                  /\ pendingToolCallMessage' =
                         [id |-> nextCallId, prompt |-> currentSessionCalls'[1].prompt]
        /\ (pendingToolCallMessage # NoMessage
                /\ pendingToolCallMessage.id \in pendingRequests)
               => \/ /\ pendingToolCallMessage' = pendingToolCallMessage
                     /\ PendingNotifications(posted') = << >>
                  \/ /\ lastOp'.op = "webviewReady"
                     /\ PendingNotifications(posted') =
                            << ToolCallPendingMsg(pendingToolCallMessage.id,
                                                  pendingToolCallMessage.prompt) >>
      ]_vars

\* C9: a webviewReady step posts no toolCallPending for a request whose
\* session entry is already Completed.
C9_NoReplayOfAnswered ==
    lastOp.op = "webviewReady"
        => \A i \in 1..Len(posted) :
               posted[i].type = "toolCallPending"
                   => posted[i].id \notin CompletedIds(currentSessionCalls)

\* C10: when a view that is not yet ready signals readiness while a request is
\* Pending and no question is buffered (the question went to a view that is
\* gone), exactly one toolCallPending is posted, for the current tool call id
\* and with the prompt of the session entry stored under that id.
C10_PendingResentOnReady ==
    [][ (/\ lastOp'.op = "webviewReady"
         /\ ~webviewReady
         /\ pendingToolCallMessage = NoMessage
         /\ PendingEntries # {})
            => /\ currentToolCallId # NoId
               /\ MapHas(currentToolCallId)
               /\ PendingNotifications(posted') =
                      << ToolCallPendingMsg(currentToolCallId,
                                            MapGet(currentToolCallId).prompt) >>
      ]_vars

\* the step is the handling of a readiness signal (webviewReady)
ReadinessStep == lastOp'.op = "webviewReady"

\* the step creates or destroys the UI
ViewLifetimeStep == lastOp'.op \in { "resolveWebviewView", "onDidDispose" }

\* the ready flag is set only by the readiness signal and is reset whenever the
\* UI is created or destroyed
ReadyFlagDiscipline ==
    /\ (webviewReady' /\ ~webviewReady) => ReadinessStep
    /\ ViewLifetimeStep => ~webviewReady'

\* C11 (as stated): between a readiness signal and the next destruction of the
\* UI the pendingQuestion of a request id is sent at most once.  In particular
\* a question sent to the ready UI by one step is not sent again by the very
\* next step; and the ready flag is set only by the readiness signal and reset
\* on creation and destruction of the UI.
C11_NoDuplicateWhileReady ==
    [][ /\ ~(/\ webviewReady
             /\ \E i \in DOMAIN PendingNotifications(posted),
                   j \in DOMAIN PendingNotifications(posted') :
                    PendingNotifications(posted)[i].id =
                        PendingNotifications(posted')[j].id)
        /\ ReadyFlagDiscipline
      ]_vars

\* C11 (amended): a pendingQuestion is sent at most once per request id
\* between one readiness signal and the next readiness signal or destruction
\* of the UI.  Step by step: no step sends more than one pendingQuestion; a
\* step other than a readiness signal sends one only as an ask to the ready
\* UI, and then for a request id that did not exist before; and the ready flag
\* is set only by the readiness signal and reset on creation and destruction.
C11_OncePerReadinessSignal ==
    [][ LET sent == PendingNotifications(posted') IN
        /\ Len(sent) <= 1
        /\ (sent # << >> /\ ~ReadinessStep)
               => /\ lastOp'.op = "ask"
                  /\ webviewReady
                  /\ sent[1].id \notin DOMAIN futures
                  /\ sent[1].id = lastOp'.id
        /\ ReadyFlagDiscipline
      ]_vars

\* a readiness signal reached a UI that was ready already and that had been
\* sent the question of the current request, and the question was sent again
C11_Witness ==
    /\ lastOp = Op("webviewReady", "resent", currentToolCallId)
    /\ webviewReady
    /\ PendingNotifications(posted) =
           << ToolCallPendingMsg(currentToolCallId, MapGet(currentToolCallId).prompt) >>
    /\ pendingToolCallMessage = NoMessage

\* the steps C12 lists: destruction and re-creation of the UI, readiness
\* signals, queue remove/edit/reorder/clear and cancellation by the agent
C12_Steps ==
    { "onDidDispose", "resolveWebviewView", "webviewReady", "removeQueuePrompt",
      "editQueuePrompt", "reorderQueue", "clearQueue", "cancel" }

\* C12: there is no cancellation or timeout.  A promise leaves the unresolved
\* state only when a submit or a queue addition answers it, and the steps
\* listed above leave every session entry as it is (a Pending one Pending),
\* the resolvers registered, the promises and the current tool call id
\* unchanged.
C12_PendingUntilAnswered ==
    [][ /\ \A id \in DOMAIN futures :
               (futures[id].state = "unresolved" /\ futures'[id] # futures[id])
                   => /\ futures'[id].state = "resolved"
                      /\ lastOp' \in { Op("submit", "resolved", id),
                                       Op("addQueuePrompt", "consumed", id) }
        /\ lastOp'.op \in C12_Steps
               => /\ currentSessionCalls' = currentSessionCalls
                  /\ pendingRequests' = pendingRequests
                  /\ currentToolCallId' = currentToolCallId
                  /\ futures' = futures
      ]_vars

\* the agent has cancelled the call that is waiting; its entry is Pending, its
\* resolver registered and it is the current tool call
C12_Witness ==
    /\ lastOp = Op("cancel", "", currentToolCallId)
    /\ currentToolCallId \in pendingRequests
    /\ MapHas(currentToolCallId)
    /\ MapGet(currentToolCallId).status = "pending"
    /\ futures[currentToolCallId].state = "unresolved"

EmptyResult == AskUserResult(TextEmpty, FALSE)

\* C14: askUser never raises to the agent: nothing it hands back in any step
\* is an exception, and when waitForUserResponse has failed because no view is
\* attached, askUser returns the empty result.
C14_AskUserNeverRaises ==
    /\ \A i \in DOMAIN returned : ~returned[i].result.raised
    /\ lastOp = Op("ask", "threw", NoId)
           => returned = << [id |-> NoId, result |-> EmptyResult] >>

\* waitForUserResponse has thrown for want of a view and askUser has returned
\* the empty result
C14_Witness ==
    /\ ~view
    /\ lastOp = Op("ask", "threw", NoId)
    /\ returned = << [id |-> NoId, result |-> EmptyResult] >>

RunIds(r) == r.id .. (r.id + r.n - 1)

\* the provider has written tool-history.json: it is no longer as it was found
HistoryWritten == historyDisk \notin HistoryDiskInputs

\* C16: in every reachable state the persisted history holds at most the
\* maximum of 100 entries, in memory and in the document the provider writes.
C16_HistoryWithinMaximum ==
    /\ HistoryLen(persistedHistory) <= MaxHistoryEntries
    /\ HistoryWritten => HistoryLen(historyDisk.history) <= MaxHistoryEntries

\* a deactivation has saved two completed calls in front of a loaded history
\* that left room for only one of them: the history is full and was cut
C16_Witness ==
    /\ lastOp = Op("deactivate", "saved", NoId)
    /\ HistoryLen(CompletedCalls) = 2
    /\ HistoryLen(persistedHistory) = MaxHistoryEntries
    /\ persistedHistory[1].id \in 1..MaxCalls
    /\ HistoryWritten
    /\ HistoryLen(historyDisk.history) = MaxHistoryEntries

\* C17: every entry of the persisted history, in memory and in the document
\* the provider writes, is Completed; a Pending entry of the session is never
\* among them.
C17_PersistedAreCompleted ==
    /\ \A i \in DOMAIN persistedHistory : persistedHistory[i].status = "completed"
    /\ HistoryWritten
           => \A i \in DOMAIN historyDisk.history :
                  historyDisk.history[i].status = "completed"
    /\ \A i \in DOMAIN persistedHistory :
           RunIds(persistedHistory[i]) \cap PendingIds(currentSessionCalls) = {}

\* the session was saved while one of its calls was still Pending: the
\* completed call is in the history and in the document, the pending one is in
\* the session only
C17_Witness ==
    /\ lastOp = Op("deactivate", "saved", NoId)
    /\ PendingEntries # {}
    /\ HistoryLen(CompletedCalls) = 1
    /\ persistedHistory # << >>
    /\ persistedHistory[1] = CompletedCalls[1]
    /\ HistoryWritten
    /\ historyDisk.history = persistedHistory

\* no id occurs twice in a history
NoDuplicateIds(h) ==
    /\ \A i \in DOMAIN h : h[i].n >= 1
    /\ \A i, j \in DOMAIN h : i # j => RunIds(h[i]) \cap RunIds(h[j]) = {}

\* C18: no entry is persisted twice: however often the extension is
\* deactivated, no entry id occurs more than once in the persisted history, in
\* memory or in the document the provider writes.
C18_NoEntryPersistedTwice ==
    /\ NoDuplicateIds(persistedHistory)
    /\ HistoryWritten => NoDuplicateIds(historyDisk.history)

\* deactivate has run a second time after the session's completed calls were
\* saved by the first
C18_Witness ==
    /\ lastOp = Op("deactivate", "", NoId)
    /\ ~webviewProvider
    /\ HistoryLen(CompletedCalls) > 0
    /\ \E i \in DOMAIN persistedHistory : persistedHistory[i] = CompletedCalls[1]

\* the debounce timer was armed and is no longer: a burst of mutations is over
BurstEnds == queueSaveTimer = "armed" /\ queueSaveTimer' # "armed"

\* C19: a burst of queue mutations with no expiry of the debounce timer between
\* them produces exactly one write of queue.json, holding the queue state
\* after the last mutation: whenever a burst is over, one write has been
\* started in that step and it holds the queue and the mode as they are.
C19_BurstWrittenOnce ==
    [][ BurstEnds
            => /\ Len(queueWrites') = Len(queueWrites) + 1
               /\ queueWrites'[Len(queueWrites')] =
                      QueueDoc("json", promptQueue, queueEnabled)
      ]_vars

\* C20: loading a queue document that is missing or cannot be parsed does not
\* fail and leaves the queue empty and enabled; loading a history document
\* that is missing or cannot be parsed does not fail and leaves the persisted
\* history empty.
C20_LoadFallsBackToDefaults ==
    [][ /\ (lastOp'.op = "loadQueue" /\ queueDisk.kind \in { "missing", "unparsable" })
               => /\ queueLoaded'
                  /\ promptQueue' = << >>
                  /\ queueEnabled' = TRUE
        /\ (lastOp'.op = "loadHistory" /\ historyDisk.kind \in { "missing", "unparsable" })
               => /\ historyLoaded'
                  /\ persistedHistory' = << >>
      ]_vars

\* both loads are over, the queue's last of all and after a prompt had been
\* added: queue.json could not be parsed, tool-history.json was missing, and
\* the queue is empty and enabled and the history empty
C20_Witness ==
    /\ lastOp = Op("loadQueue", "unparsable", NoId)
    /\ historyLoaded
    /\ historyDisk.kind = "missing"
    /\ nextItemId > 1
    /\ promptQueue = << >>
    /\ queueEnabled
    /\ persistedHistory = << >>

\* C21: a document that parses but is not of the documented shape is reset to
\* the defaults by the load: the queue empty and enabled, the history empty.
C21_WrongShapeResetToDefaults ==
    [][ /\ (lastOp'.op = "loadQueue" /\ queueDisk \in QueueShapeInputs)
               => /\ promptQueue' = << >>
                  /\ queueEnabled' = TRUE
        /\ (lastOp'.op = "loadHistory" /\ historyDisk \in HistoryShapeInputs)
               => persistedHistory' = << >>
      ]_vars

\* the ids of a queue, in queue order
QueueIds(q) == [i \in 1..Len(q) |-> q[i].id]

\* the ids of q that also occur in r, in the order of q
IdsAlsoIn(q, r) ==
    LET Occurs(id) == \E i \in 1..Len(r) : r[i].id = id
    IN SelectSeq(QueueIds(q), Occurs)

\* the ids of q that do not occur in r, in the order of q
IdsNotIn(q, r) ==
    LET Absent(id) == \A i \in 1..Len(r) : r[i].id # id
    IN SelectSeq(QueueIds(q), Absent)

\* C22: without reorder the queue keeps the order of the pushes: a step that
\* is not a reorder leaves the items that stay in the queue in the order they
\* had, and puts at most one new item into the queue, at its tail.
C22_PushOrderKept ==
    [][ lastOp'.op # "reorderQueue"
            => /\ IdsAlsoIn(promptQueue', promptQueue) = IdsAlsoIn(promptQueue, promptQueue')
               /\ Len(IdsNotIn(promptQueue', promptQueue)) <= 1
               /\ IdsNotIn(promptQueue', promptQueue) # << >>
                      => promptQueue'[Len(promptQueue')].id =
                             IdsNotIn(promptQueue', promptQueue)[1]
      ]_vars

\* a prompt has been pushed behind one that was pushed and edited before it
C22_Witness ==
    /\ lastOp = Op("addQueuePrompt", "queued", NoId)
    /\ Len(promptQueue) = 2
    /\ promptQueue[1].id = 1
    /\ promptQueue[1].prompt = TextB
    /\ promptQueue[2].id = 2

\* an index _handleReorderQueue must refuse: not an integer, negative, or not
\* a position of the queue
InvalidIndex(index) ==
    ~index.int \/ index.val < 0 \/ index.val >= Len(promptQueue)

\* C23: a reorder whose fromIndex or toIndex is not an integer, is negative
\* or is out of range leaves the queue exactly as it was and schedules no
\* write: the debounce timer and the writes under way are as before, and
\* nothing is posted.
C23_BadReorderIsNoOp ==
    [][ \A fromIndex \in IndexInputs, toIndex \in IndexInputs :
            ((InvalidIndex(fromIndex) \/ InvalidIndex(toIndex))
                 /\ HandleReorderQueue(fromIndex, toIndex))
                => /\ posted' = << >>
                   /\ UNCHANGED << promptQueue, queueEnabled, queueSaveTimer,
                                   queueWrites, queueDisk >>
      ]_vars

\* a reorder has been refused while the queue held two prompts and no write
\* was scheduled: the timer is still not armed
C23_Witness ==
    /\ lastOp = Op("reorderQueue", "rejected", NoId)
    /\ Len(promptQueue) = 2
    /\ queueSaveTimer = "none"

\* a text that is empty after trimming or longer than the ceiling
BadText(text) ==
    Trim(text) = TextEmpty \/ TextLen(Trim(text)) > MaxPromptLength

\* what a refused push or edit leaves alone: the queue, the enabled flag, the
\* debounce timer, the writes under way and the stored document
QueueUntouched ==
    /\ posted' = << >>
    /\ UNCHANGED << promptQueue, queueEnabled, queueSaveTimer, queueWrites,
                    queueDisk, nextItemId >>

\* C24: a push or an edit whose text is empty after trimming or longer than
\* MaxPromptLength is refused before anything changes: the queue and the
\* enabled flag are as before and no write is scheduled.
C24_BadTextRejected ==
    [][ /\ \A prompt \in AddInputs :
               (BadText(prompt) /\ HandleAddQueuePrompt(prompt))
                   => QueueUntouched
        /\ \A promptId \in QueueIdInputs, newPrompt \in EditInputs :
               (BadText(newPrompt) /\ HandleEditQueuePrompt(promptId, newPrompt))
                   => QueueUntouched
      ]_vars

\* an edit has been refused while its prompt was in the queue and no write
\* was scheduled
C24_Witness ==
    /\ lastOp = Op("editQueuePrompt", "rejected", NoId)
    /\ Len(promptQueue) = 1
    /\ queueSaveTimer = "none"

\* C25: every prompt in the queue has a text that is non-empty after trimming
\* and no longer than MaxPromptLength, whichever operation put it there.
C25_QueuedTextsValid ==
    \A i \in 1..Len(promptQueue) : ~BadText(promptQueue[i].prompt)

RECURSIVE HistoryIds(_)
\* the ids of the entries a run-length encoded history stands for, in order
HistoryIds(h) ==
    IF h = << >> THEN << >>
    ELSE [i \in 1..Head(h).n |-> Head(h).id + i - 1] \o HistoryIds(Tail(h))

IsCompletedEntry(e) == e.status = "completed"

\* the ids of the session's Completed entries, most recent first
SessionCompletedIds ==
    LET completed == SelectSeq(currentSessionCalls, IsCompletedEntry)
    IN [i \in 1..Len(completed) |-> completed[i].id]

\* the first n elements of s, or all of s when it has fewer
First(s, n) == SubSeq(s, 1, IF Len(s) < n THEN Len(s) ELSE n)

\* C29: the save at deactivation sets the persisted history to the session's
\* Completed entries, most recent first, followed by the entries persisted
\* before, cut to the first MaxHistoryEntries (the oldest are dropped); when
\* there is a Completed entry the document is written in the same step and, if
\* the write succeeds, holds that history; every Completed entry of the session
\* within the maximum is then in the persisted history.
C29_TeardownSavesCompleted ==
    [][ (lastOp'.op = "deactivate" /\ webviewProvider)
            => /\ HistoryIds(persistedHistory')
                      = First(SessionCompletedIds \o HistoryIds(persistedHistory),
                              MaxHistoryEntries)
               /\ \A i \in DOMAIN persistedHistory' :
                      persistedHistory'[i].status = "completed"
               /\ (SessionCompletedIds # << >> /\ Deactivate(TRUE))
                      => /\ historyDisk'.kind = "json"
                         /\ historyDisk'.history = persistedHistory'
               /\ \A i \in 1..Len(SessionCompletedIds) :
                      i <= MaxHistoryEntries
                          => \E j \in 1..HistoryLen(persistedHistory') :
                                 HistoryIds(persistedHistory')[j] = SessionCompletedIds[i]
      ]_vars

\* a deactivation has saved the two completed calls of the session, the later
\* one first, in front of 99 stored entries: the oldest stored entry was
\* dropped and the document holds the 100 that were kept
C29_Witness ==
    /\ lastOp = Op("deactivate", "saved", NoId)
    /\ persistedHistory = << HistoryRun(2, 1, "completed"),
                             HistoryRun(1, 1, "completed"),
                             HistoryRun(StoredIdBase, MaxHistoryEntries - 2, "completed") >>
    /\ historyDisk = HistoryDoc("json", persistedHistory)

\* the positions of the entries of `calls` made for the request `id`
EntriesOf(calls, id) == { i \in 1..Len(calls) : calls[i].id = id }

\* the entry of `calls` made for the request `id`
EntryOf(calls, id) == calls[CHOOSE i \in EntriesOf(calls, id) : TRUE]

\* C30: a request goes one of two ways.  Its entry is made Completed with the
\* queue's answer (Init -> QueuedAutoResolved), or it is made Pending with no
\* answer and later becomes Completed (Init -> Pending -> Completed); it has
\* one entry only, a Pending entry changes in no other way, and a Completed
\* entry is final: as long as the session keeps it, its status, response and
\* isFromQueue flag (and its question) are what they were.
C30_TwoPathsCompletedFinal ==
    [][ \A id \in 1..MaxCalls :
            LET before == EntriesOf(currentSessionCalls, id)
                after == EntriesOf(currentSessionCalls', id)
                entry == EntryOf(currentSessionCalls, id)
                entryAfter == EntryOf(currentSessionCalls', id)
            IN
            /\ Cardinality(after) <= 1
            /\ (before = {} /\ after # {})
                   => \/ /\ entryAfter.status = "completed"
                         /\ entryAfter.isFromQueue
                         /\ lastOp' = Op("ask", "auto", id)
                      \/ /\ entryAfter.status = "pending"
                         /\ ~entryAfter.isFromQueue
                         /\ entryAfter.response = << >>
                         /\ lastOp' = Op("ask", "pending", id)
            /\ (before # {} /\ after # {} /\ entry.status = "pending")
                   => \/ entryAfter = entry
                      \/ /\ entryAfter.status = "completed"
                         /\ entryAfter.prompt = entry.prompt
            /\ (before # {} /\ after # {} /\ entry.status = "completed")
                   => entryAfter = entry
            /\ (before # {} /\ after = {}) => lastOp'.op = "dispose"
      ]_vars

\* both ways have been gone and something has happened since: the first
\* request was answered by a submit while pending, the second by the queue at
\* once, and a prompt has been queued afterwards
C30_Witness ==
    /\ Len(currentSessionCalls) = 2
    /\ currentSessionCalls[1] = Entry(2, "q2", TextA, TRUE, "completed")
    /\ currentSessionCalls[2] = Entry(1, "q1", TextBPadded, FALSE, "completed")
    /\ lastOp = Op("addQueuePrompt", "queued", NoId)

FirstRun(questionText) ==
    LET numberedLines == NumberedLines(Split(questionText, NL))
    IN FirstGroup(numberedLines, NumberedListBoundaries(numberedLines))

\* the numbered lines of a text form more than one run
SeveralLists(questionText) ==
    NumberedListBoundaries(NumberedLines(Split(questionText, NL))) # {}

\* C28: when the numbered lines of the text form several lists (a run ends
\* where the number does not grow or where the next item is more than 5 lines
\* below), parseChoices returns items of the first run only: every choice it
\* returns is an item of the first run, and a first run of two or more items
\* is returned whole, whatever lists follow.
C28_FirstRunOnly ==
    (choices.called /\ SeveralLists(parsedText)) =>
        LET first == KeyChoices(FirstRun(parsedText))
        IN /\ \A k \in DOMAIN choices.result :
                  \E j \in DOMAIN first : choices.result[k] = first[j]
           /\ Len(first) >= 2 => choices.result = first

\* a line that is a numbered list item: /^\s*\d+[.)]\s/
NumberedItemLine ==
    Cat(<< Bol, Star(Chr(Space)), Plus(Chr(Digit)), ItemMark, Chr(Space) >>)

\* the number of lines of a text that are numbered list items
NumberedItems(questionText) ==
    LET lines == Split(questionText, NL)
    IN Cardinality({ k \in DOMAIN lines : Test(NumberedItemLine, lines[k]) })

\* a negative rule applies to the text: one of the negative patterns matches
\* it, or two or more of its lines are numbered list items
NegativeRule(questionText) ==
    \/ AnyMatches(RequiresSpecificInput, ToLowerCase(questionText))
    \/ NumberedItems(questionText) >= 2

\* C26: isApprovalQuestion returns false for every text that matches a
\* negative pattern or contains at least two numbered list items, whichever
\* positive patterns the text matches as well.
C26_NegativeFirst ==
    (approval.called /\ NegativeRule(parsedText)) => approval.result = FALSE

\* C31: writes of queue.json do not land out of order.  Every write holds the
\* queue state of the moment its timer fired, and a mutation arms the timer;
\* so when a write has just ended, none is under way, the timer is not armed
\* and no write has failed, the last state written is the state in memory,
\* and the document holds it.
C31_WritesLandInOrder ==
    (lastOp.op = "queueWrite" /\ queueWrites = << >> /\ queueSaveTimer = "none")
        => queueDisk = QueueDoc("json", promptQueue, queueEnabled)

\* C32: right after dispose() nothing is kept about pending requests: no
\* resolver is registered, no current tool call id is set, no question is
\* buffered for the webview, and the debounce timer is not armed.
C32_DisposeClearsBookkeeping ==
    lastOp.op = "dispose" =>
        /\ pendingRequests = {}
        /\ currentToolCallId = NoId
        /\ pendingToolCallMessage = NoMessage
        /\ queueSaveTimer = "none"

\* C33: the result a request is resolved with tells where the answer came
\* from: its queue flag is true when the answer was taken from the prompt
\* queue and false when the user submitted it, as the isFromQueue flag of the
\* recorded entry says.
C33_ResultFlagAgreesWithEntry ==
    \A id \in DOMAIN futures :
        futures[id].state = "resolved" =>
            \A i \in 1..Len(currentSessionCalls) :
                currentSessionCalls[i].id = id =>
                    futures[id].queue = currentSessionCalls[i].isFromQueue

C35_NoPendingBesideQueue ==
    ~ /\ queueEnabled
      /\ promptQueue # << >>
      /\ currentToolCallId \in pendingRequests
      /\ \E i \in 1..Len(currentSessionCalls) :
             /\ currentSessionCalls[i].id = currentToolCallId
             /\ currentSessionCalls[i].status = "pending"

\* C36: in every reachable state the bookkeeping of the pending request
\* agrees: the current correlation id is set exactly when a resolver is
\* registered under that id, exactly when the session entry with that id is
\* Pending, and no Pending entry is without a registered resolver.
C36_BookkeepingAgrees ==
    LET currentSet == currentToolCallId # NoId
        currentHasResolver == currentToolCallId \in pendingRequests
        currentIsPending ==
            \E i \in PendingEntries : currentSessionCalls[i].id = currentToolCallId
    IN  /\ currentSet <=> currentHasResolver
        /\ currentHasResolver <=> currentIsPending
        /\ \A i \in PendingEntries : currentSessionCalls[i].id \in pendingRequests

\* C37: a request that is still waiting when a second ask arrives is not
\* orphaned: as long as a resolver is registered and the answer of its request
\* is outstanding, a submit from the webview answers one of the waiting
\* requests.
C37_EarlierRequestStillAnswerable ==
    [][ (lastOp'.op = "submit"
            /\ \E id \in pendingRequests : ~Resolved(futures, id))
           => NewlyResolved # {}
      ]_vars

\* C38: whenever a question notification is buffered awaiting readiness, its
\* id is the current correlation id and the session entry with that id is
\* Pending.
C38_BufferBelongsToCurrentRequest ==
    pendingToolCallMessage # NoMessage
        => /\ pendingToolCallMessage.id = currentToolCallId
           /\ pendingToolCallMessage.id \in PendingIds(currentSessionCalls)

\* C39: the initial load of the queue document discards nothing: every prompt
\* that is in the in-memory queue when the load completes, put there by a
\* mutation made since construction, is still in the queue after it.
C39_LoadKeepsEarlierMutations ==
    [][ lastOp'.op = "loadQueue"
            => \A i \in 1..Len(promptQueue) :
                   \E j \in 1..Len(promptQueue') : promptQueue'[j] = promptQueue[i]
      ]_vars

\* C40: every accepted queue mutation is eventually persisted: if from some
\* point on the in-memory queue and queue mode no longer change, then from
\* some point on the queue document on disk is one that loads to exactly that
\* queue and queue mode, also when the provider has been disposed meanwhile.
C40_MutationsEventuallyPersisted ==
    <>[][promptQueue' = promptQueue /\ queueEnabled' = queueEnabled]_vars
        => <>[](QueueFromDocument(queueDisk) =
                    [queue |-> promptQueue, enabled |-> queueEnabled])

====
